---- MODULE Spec2Model ----
(***************************************************************************)
(* A model of flycatch/DockerManager: the reconciliation loop of the      *)
(* DockerManager application (src/managers/docker_manager.py), the        *)
(* runtime client (src/service.py) and the log and shell sessions of the  *)
(* container action screen (src/container_action_menu.py).                *)
(*                                                                         *)
(* Container tuples are the five-field shape (idx, id, name, image,        *)
(* status) that refresh_projects and sync_card_list unpack                 *)
(* (ContainerTuple5 of src/service.py).                                    *)
(***************************************************************************)
EXTENDS Integers, Sequences, FiniteSets, TLC

VARIABLES
    runtime,              \* the container runtime: id -> container state
    daemon,               \* how the runtime answers a request: one of Faults
    changes,              \* number of runtime changes so far (bounded)
    refreshing,           \* DockerManager._refreshing
    last_containers,      \* DockerManager._last_containers
    cards,                \* DockerManager.cards: id -> card
    uncategorized_cards,  \* DockerManager.uncategorized_cards: id -> card
    container_list,       \* children of #container-list, in mount order (ids)
    uncategorized_list,   \* children of #uncategorized-list, in mount order (ids)
    project_tree,         \* children of project_tree.root: nodes (label, data)
    current_project,      \* DockerManager.current_project
    passes,               \* the calls of refresh_projects: slot -> frame
    ops,                  \* what the latest step did (observation only)
    log_lines,            \* ContainerActionScreen.log_lines
    keep_streaming,       \* ContainerActionScreen.keep_streaming
    log_pump,             \* the stream_logs worker thread: where it is
    log_next,             \* the number of the next line of the log stream
    shell_available,      \* ContainerActionScreen.shell_available
    shell_checked,        \* ContainerActionScreen.shell_checked
    active_tab,           \* TabbedContent.active of the screen
    shell_reader,         \* ContainerActionScreen.shell_reader: a connection
    shell_writer,         \* ContainerActionScreen.shell_writer: a connection
    shell_task,           \* ContainerActionScreen.shell_task: a pump
    shell_lines,          \* ContainerActionScreen.shell_lines
    command_history,      \* ContainerActionScreen.command_history
    conns,                \* the exec connections: id -> state, output, input
    pumps,                \* the read_shell_output tasks: id -> frame
    opens,                \* the calls of action_open_shell: slot -> position
    handler,              \* the call of on_input_submitted in progress
    submitted,            \* number of commands submitted so far (bounded)
    sops,                 \* what the latest shell step did (observation only)
    unmounted,            \* on_unmount of the screen has run
    input_disabled,       \* disabled of the Input "shell-input"
    history_index,        \* ContainerActionScreen.history_index
    input_value,          \* value of the Input "shell-input"
    calls,                \* the last two lifecycle calls of service.py
    listing,              \* the array GET /containers/json answered with
    poll_result,          \* what get_projects_with_containers made of it
    exec_call,            \* the latest call of a function of container_exec.py
    filter_value,         \* the value of the log-filter Input
    filter_text,          \* ContainerActionScreen.filter_text
    log_output,          \* the lines shown by the log-output widget
    render_tick,          \* observation: flips with every call of refresh_logs
    log_scroll,           \* the scroll position of the log pane (#log-scroll)
    shell_sent,           \* observation: how many lines the container's shell has sent
    project_call,         \* the latest call of stop_project (service.py)
    containers_tab,       \* the container list of the active view: cards, display, focus, selected_index
    pump_split            \* the reads, line buffer and split lines of read_shell_output

rvars == <<runtime, daemon, changes, refreshing, last_containers, cards,
           uncategorized_cards, container_list, uncategorized_list,
           project_tree, current_project, passes, ops>>

lvars == <<log_lines, keep_streaming, log_pump, log_next>>

svars == <<shell_available, shell_checked, active_tab, shell_reader,
           shell_writer, shell_task, shell_lines, command_history, conns,
           pumps, opens, handler, submitted, sops, unmounted,
           input_disabled, history_index, input_value>>

cvars == <<calls>>

pvars == <<listing, poll_result>>

xvars == <<exec_call>>

fvars == <<filter_value, filter_text, log_output, render_tick, log_scroll>>

ovars == <<shell_sent>>

jvars == <<project_call>>

wvars == <<containers_tab>>

bvars == <<pump_split>>

nonrvars == <<lvars, svars, cvars, pvars, xvars, fvars, ovars, jvars, wvars, bvars>>

nonlvars == <<rvars, svars, cvars, pvars, xvars, fvars, ovars, jvars, wvars, bvars>>

nonsvars == <<rvars, lvars, cvars, pvars, xvars, fvars, ovars, jvars, wvars, bvars>>

nonpvars == <<rvars, lvars, svars, cvars, xvars, fvars, ovars, jvars, wvars, bvars>>

nonxvars == <<rvars, lvars, svars, cvars, pvars, fvars, ovars, jvars, wvars, bvars>>

nonfvars == <<rvars, lvars, svars, cvars, pvars, xvars, ovars, jvars, wvars, bvars>>

nonovars == <<rvars, lvars, svars, cvars, pvars, xvars, fvars, jvars, wvars, bvars>>

nonjvars == <<rvars, lvars, svars, cvars, pvars, xvars, fvars, ovars, wvars, bvars>>

nonwvars == <<rvars, lvars, svars, cvars, pvars, xvars, fvars, ovars, jvars, bvars>>

nonbvars == <<rvars, lvars, svars, cvars, pvars, xvars, fvars, ovars, jvars, wvars>>

vars == <<rvars, lvars, svars, cvars, pvars, xvars, fvars, ovars, jvars, wvars, bvars>>

----------------------------------------------------------------------------
(* Bounds of the model *)

MaxChanges == 2

MaxNodes == 3

----------------------------------------------------------------------------
(* The container runtime *)

IdOrder == <<"A", "B", "C", "U">>

Ids == {IdOrder[i] : i \in 1..Len(IdOrder)}

NA == "N/A"

None == "<None>"

Uncategorized == "Uncategorized"

(* the compose project label and the image of a container are fixed when   *)
(* it is created; its name and its status change while it exists           *)
ProjectOf(c) == IF c = "U" THEN Uncategorized ELSE "P"

NamesOf(c) == IF c = "A" THEN {"a", "a2"} ELSE {"n"}

Statuses == {"Up", "Exited"}

Gone == [present |-> FALSE, project |-> "-", name |-> "-", image |-> "-", status |-> "-"]

(* a container as "docker run" leaves it *)
Created(c) ==
    [present |-> TRUE, project |-> ProjectOf(c),
     name |-> IF c = "A" THEN "a" ELSE "n", image |-> "img", status |-> "Up"]

(* the containers that exist when the application starts *)
StartSets == {{}, {"A", "B"}, {"A", "B", "U"}}

Variants(c) ==
    {Gone} \cup [present : {TRUE}, project : {ProjectOf(c)}, name : NamesOf(c),
                 image : {"img"}, status : Statuses]

----------------------------------------------------------------------------
(* Helpers on finite maps (Python dicts) and sequences *)

MapRemove(m, k) == [x \in (DOMAIN m) \ {k} |-> m[x]]

MapPut(m, k, v) == [x \in (DOMAIN m) \cup {k} |-> IF x = k THEN v ELSE m[x]]

SeqRemove(s, k) == SelectSeq(s, LAMBDA x : x # k)

RECURSIVE Dedup(_)
Dedup(s) ==
    IF s = <<>> THEN <<>>
    ELSE LET r == Dedup(SubSeq(s, 1, Len(s) - 1))
             x == s[Len(s)]
         IN  IF \E i \in 1..Len(r) : r[i] = x THEN r ELSE Append(r, x)

RECURSIVE Flatten(_)
Flatten(ss) ==
    IF ss = <<>> THEN <<>> ELSE Head(ss) \o Flatten(Tail(ss))

Objs(m) == {m[k].obj : k \in DOMAIN m}

FreshObj(used) == CHOOSE n \in 1..(Cardinality(used) + 1) : n \notin used

(* the iteration order of a Python set is not fixed: the next element is   *)
(* the first or the last of those left, in the order of IdOrder            *)
Picks == {"first", "last"}

IndexOf(c) ==
    IF c \in Ids THEN CHOOSE i \in 1..Len(IdOrder) : IdOrder[i] = c ELSE 0

PickFrom(S, pick) ==
    CHOOSE x \in S :
       \A y \in S : IF pick = "last" THEN IndexOf(y) <= IndexOf(x)
                                     ELSE IndexOf(x) <= IndexOf(y)

----------------------------------------------------------------------------
(* src/service.py: get_projects_with_containers *)

Tuple5(i, c, name, image, status) ==
    [idx |-> i, cid |-> c, name |-> name, image |-> image, status |-> status]

ErrorGroup(status) ==
    << [project |-> "Error",
        containers |-> << Tuple5(0, NA, "Error", NA, status) >>] >>

NoProjectsGroup ==
    << [project |-> "No Projects",
        containers |-> << Tuple5(0, NA, "No containers", "", "") >>] >>

get_projects_with_containers(rt, fault) ==
    IF fault = "transport" THEN ErrorGroup("Request failed")
    ELSE IF fault = "http" THEN ErrorGroup("HTTP 500")
    ELSE
      LET data == SelectSeq(IdOrder, LAMBDA c : rt[c].present)
          label == [i \in 1..Len(data) |-> rt[data[i]].project]
          order == Dedup(label)
          group(p) ==
              LET at == SelectSeq([i \in 1..Len(data) |-> i],
                                  LAMBDA i : label[i] = p)
              IN  [k \in 1..Len(at) |->
                      Tuple5(at[k], data[at[k]], rt[data[at[k]]].name,
                             rt[data[at[k]]].image, rt[data[at[k]]].status)]
      IN  IF data = <<>> THEN NoProjectsGroup
          ELSE [k \in 1..Len(order) |->
                   [project |-> order[k], containers |-> group(order[k])]]

Faults == {"ok", "transport", "http"}

----------------------------------------------------------------------------
(* src/managers/docker_manager.py: DockerManager.refresh_projects and      *)
(* DockerManager.sync_card_list.  A call of refresh_projects is a frame;   *)
(* it runs from one await to the next in one step.  The awaits that give   *)
(* up control are card.remove() and mount_target.mount(card).              *)

Slots == {"direct", "w1", "w2"}

Workers == {"w1", "w2"}

Suspended == {"rm_wait", "add_wait"}

IdleFrame ==
    [pc |-> "idle", kind |-> "-", cancel |-> FALSE, all_projects |-> <<>>,
     path |-> "-", target |-> "-", data |-> <<>>, new_ids |-> {},
     torem |-> {}, addi |-> 0, old_map |-> <<>>, clean |-> TRUE,
     fault |-> "-", after_error |-> FALSE]

PendingFrame == [IdleFrame EXCEPT !.pc = "pending", !.kind = "worker"]

OpsNone ==
    [entered |-> FALSE, call |-> "none", polled |-> FALSE, rebuilt |-> FALSE,
     created |-> {}, removed |-> {}, raised |-> FALSE, synced |-> {},
     finished |-> "none", poll_ids |-> {}, fault |-> "-",
     after_error |-> FALSE]

InFlight(f) == f.pc \in Suspended

(* new_snapshot of refresh_projects: id -> (name, image, status) *)
NewSnapshot(all_projects) ==
    LET all == Flatten([k \in 1..Len(all_projects) |-> all_projects[k].containers])
        lastOf(c) == CHOOSE i \in 1..Len(all) :
                        /\ all[i].cid = c
                        /\ \A j \in (i + 1)..Len(all) : all[j].cid # c
    IN  [c \in {all[i].cid : i \in 1..Len(all)} |->
            <<all[lastOf(c)].name, all[lastOf(c)].image, all[lastOf(c)].status>>]

(* the snapshot of a poll that failed: the one record of the "Error" group *)
ShowsError(snapshot) ==
    DOMAIN snapshot = {NA} /\ snapshot[NA][1] = "Error"

AlwaysFullSync(new_snapshot, last) == FALSE

(* the condition of CASE 1: same ids, and the same (name, image) for each *)
OnlyStatusesChanged(new_snapshot, last) ==
    /\ DOMAIN new_snapshot = DOMAIN last
    /\ \A c \in DOMAIN new_snapshot :
          SubSeq(new_snapshot[c], 1, 2) = SubSeq(last[c], 1, 2)

KeepStatus(card, new_status) == card

update_status(card, new_status) == [card EXCEPT !.status = new_status]

(* get_container_card_by_id: "cards" when it holds the id, else            *)
(* "uncategorized", else "none"                                            *)
get_container_card_by_id(cs, us, c) ==
    IF c \in DOMAIN cs THEN "cards"
    ELSE IF c \in DOMAIN us THEN "uncategorized" ELSE "none"

MapOf(s, target) == IF target = "u" THEN s.uncategorized_cards ELSE s.cards

ListOf(s, target) == IF target = "u" THEN s.uncategorized_list ELSE s.container_list

SetMap(s, target, m, l) ==
    IF target = "u"
    THEN [s EXCEPT !.uncategorized_cards = m, !.uncategorized_list = l]
    ELSE [s EXCEPT !.cards = m, !.container_list = l]

DataIds(data) == {data[i].cid : i \in 1..Len(data)}

StatusIn(data, c) ==
    LET i == CHOOSE i \in 1..Len(data) :
                /\ data[i].cid = c
                /\ \A j \in (i + 1)..Len(data) : data[j].cid # c
    IN  data[i].status

(* CASE 1 of refresh_projects: update the statuses of the cards in place *)
FastPath(s, new_snapshot) ==
    [s EXCEPT
       !.cards = [c \in DOMAIN s.cards |->
                    IF c \in DOMAIN new_snapshot
                    THEN update_status(s.cards[c], new_snapshot[c][3])
                    ELSE s.cards[c]],
       !.uncategorized_cards = [c \in DOMAIN s.uncategorized_cards |->
                    IF c \in DOMAIN new_snapshot /\ c \notin DOMAIN s.cards
                    THEN update_status(s.uncategorized_cards[c], new_snapshot[c][3])
                    ELSE s.uncategorized_cards[c]],
       !.last_containers = new_snapshot,
       !.ops.call = "fast",
       !.f.path = "fast",
       !.f.pc = "finally"]

(* the project tree rebuilt from the poll: one node per project group      *)
(* other than "Uncategorized"                                              *)
RebuildTree(all_projects) ==
    LET named == SelectSeq(all_projects, LAMBDA g : g.project # Uncategorized)
    IN  [k \in 1..Len(named) |->
            [label |-> named[k].project, data |-> named[k].containers]]

HasGroup(all_projects, p) ==
    \E k \in 1..Len(all_projects) : all_projects[k].project = p

GroupOf(all_projects, p) ==
    all_projects[CHOOSE k \in 1..Len(all_projects) : all_projects[k].project = p].containers

(* the index of the next tuple of data, from i on, whose id has no card *)
NextToAdd(data, m, i) ==
    IF \E j \in i..Len(data) : data[j].cid \notin DOMAIN m
    THEN CHOOSE j \in i..Len(data) :
            /\ data[j].cid \notin DOMAIN m
            /\ \A k \in i..(j - 1) : data[k].cid \in DOMAIN m
    ELSE 0

KeepsFlag(flag) == flag

(* "finally: self._refreshing = False" *)
ClearFlag(flag) == FALSE

(* One frame run from its program point to its next await or to its end.   *)
(* s holds the application state the frame reads and writes, its frame f,  *)
(* and used, the card objects that exist or are still referred to.         *)
RECURSIVE Run(_, _)
Run(s, pick) ==
    CASE s.f.pc = "poll" ->
           LET all_projects == get_projects_with_containers(s.runtime, s.fault)
               new_snapshot == NewSnapshot(all_projects)
               t == [s EXCEPT !.f.all_projects = all_projects,
                              !.f.fault = s.fault,
                              !.f.after_error = ShowsError(s.last_containers),
                              !.ops.polled = TRUE]
           IN  IF OnlyStatusesChanged(new_snapshot, s.last_containers)
               THEN Run(FastPath(t, new_snapshot), pick)
               ELSE LET u == [t EXCEPT !.last_containers = new_snapshot,
                                       !.ops.call = "slow",
                                       !.f.path = "slow"]
                    IN  IF HasGroup(all_projects, Uncategorized)
                        THEN Run([u EXCEPT !.f.pc = "sync_begin", !.f.target = "u",
                                      !.f.data = GroupOf(all_projects, Uncategorized)],
                                 pick)
                        ELSE Run([u EXCEPT !.f.pc = "tree"], pick)
      [] s.f.pc = "sync_begin" ->
           LET m == MapOf(s, s.f.target)
               new_ids == DataIds(s.f.data)
           IN  Run([s EXCEPT !.f.pc = "rm_loop", !.f.new_ids = new_ids,
                             !.f.old_map = m, !.f.clean = TRUE,
                             !.f.torem = (DOMAIN m) \ new_ids,
                             !.used = s.used \cup Objs(m)], pick)
      [] s.f.pc = "rm_loop" ->
           IF s.f.torem = {} THEN Run([s EXCEPT !.f.pc = "update"], pick)
           ELSE LET c == PickFrom(s.f.torem, pick)
                    m == MapOf(s, s.f.target)
                IN  IF c \notin DOMAIN m
                    THEN Run([s EXCEPT !.f.pc = "finally", !.f.path = "raised",
                                      !.ops.raised = TRUE], pick)
                    ELSE [SetMap(s, s.f.target, MapRemove(m, c),
                                 SeqRemove(ListOf(s, s.f.target), c))
                            EXCEPT !.f.pc = "rm_wait",
                                   !.f.torem = s.f.torem \ {c},
                                   !.ops.removed = s.ops.removed \cup {c}]
      [] s.f.pc = "update" ->
           LET m == MapOf(s, s.f.target)
               upd == [c \in DOMAIN m |->
                         IF c \in DOMAIN s.f.old_map /\ c \in s.f.new_ids
                         THEN update_status(m[c], StatusIn(s.f.data, c))
                         ELSE m[c]]
           IN  Run([SetMap(s, s.f.target, upd, ListOf(s, s.f.target))
                      EXCEPT !.f.pc = "add_loop", !.f.addi = 1], pick)
      [] s.f.pc = "add_loop" ->
           LET m == MapOf(s, s.f.target)
               j == NextToAdd(s.f.data, m, s.f.addi)
           IN  IF j = 0 THEN Run([s EXCEPT !.f.pc = "sync_end"], pick)
               ELSE LET d == s.f.data[j]
                        o == FreshObj(s.used)
                        card == [obj |-> o, idx |-> d.idx, cid |-> d.cid,
                                 name |-> d.name, image |-> d.image,
                                 status |-> d.status]
                    IN  [SetMap(s, s.f.target, MapPut(m, d.cid, card),
                                Append(ListOf(s, s.f.target), d.cid))
                           EXCEPT !.f.pc = "add_wait", !.f.addi = j + 1,
                                  !.used = s.used \cup {o},
                                  !.ops.created = s.ops.created \cup {d.cid}]
      [] s.f.pc = "sync_end" ->
           LET t == [s EXCEPT !.ops.synced = s.ops.synced \cup
                        {[target |-> s.f.target, old |-> s.f.old_map,
                          data |-> s.f.data, clean |-> s.f.clean]}]
           IN  IF s.f.kind = "handler" THEN [t EXCEPT !.f = IdleFrame]
               ELSE IF s.f.target = "u" THEN Run([t EXCEPT !.f.pc = "tree"], pick)
               ELSE Run([t EXCEPT !.f.pc = "finally"], pick)
      [] s.f.pc = "tree" ->
           LET tree == RebuildTree(s.f.all_projects)
               t == [s EXCEPT !.project_tree = tree, !.ops.rebuilt = TRUE]
               hit == {k \in 1..Len(tree) : tree[k].label = s.current_project}
           IN  IF s.current_project # None
               THEN IF hit = {} THEN Run([t EXCEPT !.f.pc = "finally"], pick)
                    ELSE Run([t EXCEPT !.f.pc = "sync_begin", !.f.target = "c",
                                 !.f.data = tree[CHOOSE k \in hit :
                                                   \A h \in hit : k <= h].data],
                             pick)
               ELSE IF tree # <<>>
               THEN Run([t EXCEPT !.f.pc = "sync_begin", !.f.target = "c",
                                  !.f.data = tree[1].data], pick)
               ELSE Run([t EXCEPT !.f.pc = "finally"], pick)
      [] s.f.pc = "finally" ->
           [s EXCEPT !.refreshing = ClearFlag(s.refreshing), !.f = IdleFrame,
                     !.ops.finished = s.f.path,
                     !.ops.fault = s.f.fault,
                     !.ops.after_error = s.f.after_error,
                     !.ops.poll_ids = DOMAIN NewSnapshot(s.f.all_projects)]
      [] OTHER -> s

NeverDrops(flag) == FALSE

(* "if self._refreshing: return", the guard at the head of refresh_projects *)
GuardDrops(flag) == flag

(* a call of refresh_projects from its first line to its first await *)
Enter(s, pick) ==
    IF GuardDrops(s.refreshing)
    THEN [s EXCEPT !.ops.call = "dropped", !.f = IdleFrame]
    ELSE Run([s EXCEPT !.refreshing = TRUE, !.f.pc = "poll"], pick)

(* a frame resumed after the await it was suspended in *)
Continue(s, pick) ==
    Run([s EXCEPT !.f.pc = IF s.f.pc = "rm_wait" THEN "rm_loop" ELSE "add_loop"],
        pick)

(* sync_card_list run to its end with no other task in between *)
RECURSIVE RunAll(_)
RunAll(s) ==
    LET r == Run(s, "first")
    IN  IF r.f.pc \in Suspended THEN RunAll([r EXCEPT !.f.pc =
                 IF r.f.pc = "rm_wait" THEN "rm_loop" ELSE "add_loop"])
        ELSE r

AllUsed ==
    Objs(cards) \cup Objs(uncategorized_cards)
      \cup UNION {Objs(passes[q].old_map) : q \in Slots}

State(p, frame) ==
    [runtime |-> runtime, fault |-> daemon, refreshing |-> refreshing,
     last_containers |-> last_containers, cards |-> cards,
     uncategorized_cards |-> uncategorized_cards,
     container_list |-> container_list,
     uncategorized_list |-> uncategorized_list,
     project_tree |-> project_tree, current_project |-> current_project,
     ops |-> OpsNone, f |-> frame, used |-> AllUsed]

(* the frames of the other calls: one suspended in sync_card_list on a map *)
(* that this step changed no longer runs on the map it started from        *)
Others(p, r) ==
    [q \in Slots |->
        IF q = p THEN r.f
        ELSE IF /\ passes[q].pc \in Suspended
                /\ MapOf(r, passes[q].target) #
                     (IF passes[q].target = "u" THEN uncategorized_cards ELSE cards)
             THEN [passes[q] EXCEPT !.clean = FALSE]
             ELSE passes[q]]

Commit(p, r) ==
    /\ refreshing' = r.refreshing
    /\ last_containers' = r.last_containers
    /\ cards' = r.cards
    /\ uncategorized_cards' = r.uncategorized_cards
    /\ container_list' = r.container_list
    /\ uncategorized_list' = r.uncategorized_list
    /\ project_tree' = r.project_tree
    /\ passes' = Others(p, r)
    /\ ops' = r.ops

----------------------------------------------------------------------------
(* src/container_action_menu.py: the data of the shell session of          *)
(* ContainerActionScreen.  An exec connection is a number; NoConn stands   *)
(* for None.  What the shell sends is a sequence of items: a line of text  *)
(* or a cursor-home / clear-screen sequence, each marked with the number   *)
(* of the submitted command that produced it.                              *)

MaxConns == 2

MaxPumps == 2

MaxCommands == 2

MaxBanners == 1

ShellCap == 1000

ShellKeep == 900

NoConn == 0

NoPump == 0

PROMPT == "$ "

Commands == {"ls", "top", "exit", "EXIT"}

(* what the user can have typed when Enter is pressed: a command, a        *)
(* command with blanks around it, or blanks only                           *)
Texts == Commands \cup {" ls ", "  "}

(* event.value.strip(), on the texts above *)
Strip(text) ==
    CASE text = " ls " -> "ls"
      [] text = "  " -> ""
      [] OTHER -> text

(* command.lower(), on the commands above *)
Lower(cmd) == IF cmd = "EXIT" THEN "exit" ELSE cmd

OpenSlots == {"t1", "cb"}

OpenTasks == {"t1"}

(* how "await open_docker_shell(...)" ends: a connection, an exception     *)
(* whose text names a missing shell or a stopped container, or another     *)
(* exception                                                               *)
Outcomes == {"ok", "no shell", "failed"}

UnusedConn == [state |-> "unused", out |-> <<>>, written |-> <<>>]

UnusedPump ==
    [pc |-> "unused", conn |-> NoConn, is_realtime_cmd |-> FALSE,
     realtime_output |-> <<>>, esc_cmd |-> 0]

IdleHandler == [pc |-> "idle", command |-> "", clear |-> "", opened |-> NoConn]

ShellOpsNone ==
    [lines |-> {}, chunk_esc |-> FALSE, submit |-> "none", command |-> "", reconnected |-> FALSE,
     key |-> "",
     conn |-> NoConn, started |-> NoPump, superseded |-> TRUE]

(* ContainerActionScreen.__init__ *)
InitShell ==
    /\ shell_available = FALSE
    /\ shell_checked = FALSE
    /\ active_tab = "Logs"
    /\ shell_reader = NoConn
    /\ shell_writer = NoConn
    /\ shell_task = NoPump
    /\ shell_lines = <<>>
    /\ command_history = <<>>
    /\ conns = [c \in 1..MaxConns |-> UnusedConn]
    /\ pumps = [p \in 1..MaxPumps |-> UnusedPump]
    /\ opens = [o \in OpenSlots |-> "idle"]
    /\ handler = IdleHandler
    /\ submitted = 0
    /\ sops = ShellOpsNone
    /\ unmounted = FALSE
    /\ input_disabled = FALSE
    /\ history_index = -1
    /\ input_value = ""

(* ContainerActionScreen.__init__ *)
InitLogs ==
    /\ log_lines = <<>>
    /\ keep_streaming = FALSE
    /\ log_pump = "unstarted"
    /\ log_next = 1

(* no lifecycle call has been made *)
InitClient == calls = <<>>

(* no listing has been fetched *)
InitPoll == listing = <<>> /\ poll_result = <<>>

(* no call of container_exec.py has been made *)
IdleExec ==
    [op |-> "none", cause |-> "-", answers |-> <<>>, tried |-> <<>>,
     pc |-> "idle", id |-> 0, error |-> ""]

InitExec == exec_call = IdleExec

(* ContainerActionScreen.__init__ and compose: no filter, nothing shown *)
InitView ==
    /\ filter_value = <<>>
    /\ filter_text = <<>>
    /\ log_output = <<>>
    /\ render_tick = FALSE
    /\ log_scroll = [scroll_y |-> 0, at_bottom |-> TRUE, before |-> 0]

(* the shell of the container has sent nothing *)
InitSent == shell_sent = 0

(* stop_project has not been called *)
IdleProjectCall ==
    [pc |-> "idle", project |-> "-", listed |-> <<>>, todo |-> <<>>,
     done |-> <<>>, success |-> TRUE, result |-> FALSE]

InitProjectCall == project_call = IdleProjectCall

(* ContainersTab.__init__: no card is mounted, selected_index is 0 *)
EmptyTab ==
    [children |-> <<>>, hidden |-> {}, focused |-> "none",
     selected_index |-> 0, search_active |-> FALSE, opened |-> "-",
     op |-> "init", before |-> "-"]

InitTab == containers_tab = EmptyTab

(* read_shell_output before its loop: buffer = "" and nothing is read *)
InitSplit ==
    pump_split = [stream |-> <<>>, reads |-> <<>>, buffer |-> <<>>, lines |-> <<>>]

(* DockerManager.__init__ *)
InitManager ==
    /\ daemon = "ok"
    /\ changes = 0
    /\ refreshing = FALSE
    /\ last_containers = <<>>
    /\ cards = <<>>
    /\ uncategorized_cards = <<>>
    /\ container_list = <<>>
    /\ uncategorized_list = <<>>
    /\ project_tree = <<>>
    /\ current_project = None
    /\ passes = [q \in Slots |-> IdleFrame]
    /\ ops = OpsNone

----------------------------------------------------------------------------
(* Actions of the reconciliation loop *)

(* the runtime changes: a container appears, disappears, is renamed or     *)
(* changes its status                                                      *)
RuntimeChange(c, r) ==
    /\ changes < MaxChanges
    /\ \A q \in Slots : passes[q].pc = "idle"
    /\ r # runtime[c]
    /\ runtime' = [runtime EXCEPT ![c] = r]
    /\ changes' = changes + 1
    /\ ops' = OpsNone
    /\ UNCHANGED nonrvars
    /\ UNCHANGED <<daemon, refreshing, last_containers, cards,
                   uncategorized_cards, container_list, uncategorized_list,
                   project_tree, current_project, passes>>

(* the daemon stops answering, answers with an error status, or recovers *)
DaemonChange(d) ==
    /\ changes < MaxChanges
    /\ \A q \in Slots : passes[q].pc = "idle"
    /\ d # daemon
    /\ daemon' = d
    /\ changes' = changes + 1
    /\ ops' = OpsNone
    /\ UNCHANGED nonrvars
    /\ UNCHANGED <<runtime, refreshing, last_containers, cards,
                   uncategorized_cards, container_list, uncategorized_list,
                   project_tree, current_project, passes>>

(* trigger_background_refresh, ProjectsTab._maybe_run_refresh and the      *)
(* timer of on_container_action_screen_selected:                           *)
(* run_worker(self.refresh_projects, exclusive=True, group="refresh")      *)
(* cancels the workers of the group and schedules a new one                *)
trigger_background_refresh ==
    /\ \E w \in Workers : ~InFlight(passes[w])
    /\ LET w == IF ~InFlight(passes["w1"]) THEN "w1" ELSE "w2"
       IN  passes' = [q \in Slots |->
                        IF q = w THEN PendingFrame
                        ELSE IF q \in Workers /\ passes[q].pc = "pending"
                             THEN IdleFrame
                        ELSE IF q \in Workers /\ InFlight(passes[q])
                             THEN [passes[q] EXCEPT !.cancel = TRUE]
                        ELSE passes[q]]
    /\ passes' # passes
    /\ ops' = OpsNone
    /\ UNCHANGED nonrvars
    /\ UNCHANGED <<runtime, daemon, changes, refreshing, last_containers, cards,
                   uncategorized_cards, container_list, uncategorized_list,
                   project_tree, current_project>>

(* the scheduled worker runs refresh_projects up to its first await *)
WorkerRuns(w, pick) ==
    /\ passes[w].pc = "pending"
    /\ LET s == State(w, [IdleFrame EXCEPT !.kind = "worker"])
       IN  Commit(w, Enter([s EXCEPT !.ops.entered = TRUE], pick))
    /\ UNCHANGED <<runtime, daemon, changes, current_project>>
    /\ UNCHANGED nonrvars

(* "await self.refresh_projects()" in on_mount and in                      *)
(* on_container_action_screen_selected, handlers of the application's      *)
(* message pump, which runs one handler at a time                          *)
DirectCall(pick) ==
    /\ passes["direct"].pc = "idle"
    /\ LET s == State("direct", [IdleFrame EXCEPT !.kind = "direct"])
       IN  Commit("direct", Enter([s EXCEPT !.ops.entered = TRUE], pick))
    /\ UNCHANGED <<runtime, daemon, changes, current_project>>
    /\ UNCHANGED nonrvars

(* a suspended call resumes and runs to its next await or to its end *)
Resume(p, pick) ==
    /\ InFlight(passes[p])
    /\ ~passes[p].cancel
    /\ Commit(p, Continue(State(p, passes[p]), pick))
    /\ UNCHANGED <<runtime, daemon, changes, current_project>>
    /\ UNCHANGED nonrvars

(* the cancelled worker gets CancelledError at its await: only the finally *)
(* clause of refresh_projects runs                                         *)
Cancelled(p) ==
    /\ InFlight(passes[p])
    /\ passes[p].cancel
    /\ LET s == State(p, passes[p])
       IN  Commit(p, Run([s EXCEPT !.f.pc = "finally", !.f.path = "cancelled"], "first"))
    /\ UNCHANGED <<runtime, daemon, changes, current_project>>
    /\ UNCHANGED nonrvars

(* on_tree_node_selected: the cards of the selected node are synced and    *)
(* the node's project becomes current_project                              *)
on_tree_node_selected(k) ==
    /\ passes["direct"].pc = "idle"
    /\ k \in 1..Len(project_tree)
    /\ LET s == State("direct", [IdleFrame EXCEPT !.kind = "handler",
                 !.pc = "sync_begin", !.target = "c",
                 !.data = project_tree[k].data])
       IN  Commit("direct", IF project_tree[k].data # <<>> THEN RunAll(s)
                            ELSE [s EXCEPT !.f = IdleFrame])
    /\ current_project' = project_tree[k].label
    /\ UNCHANGED <<runtime, daemon, changes>>
    /\ UNCHANGED nonrvars

InitReconcile ==
    /\ \E S \in StartSets :
          runtime = [c \in Ids |-> IF c \in S THEN Created(c) ELSE Gone]
    /\ InitManager
    /\ InitLogs
    /\ InitShell
    /\ InitClient
    /\ InitPoll
    /\ InitExec
    /\ InitView
    /\ InitSent
    /\ InitProjectCall
    /\ InitTab
    /\ InitSplit

NextReconcile ==
    \/ \E c \in Ids : \E r \in Variants(c) : RuntimeChange(c, r)
    \/ trigger_background_refresh
    \/ \E d \in Faults : DaemonChange(d)
    \/ \E w \in Workers, pick \in Picks : WorkerRuns(w, pick)
    \/ \E pick \in Picks : DirectCall(pick)
    \/ \E p \in Slots, pick \in Picks : Resume(p, pick)
    \/ \E p \in Slots : Cancelled(p)
    \/ \E k \in 1..MaxNodes : on_tree_node_selected(k)

SpecReconcile == InitReconcile /\ [][NextReconcile]_vars

----------------------------------------------------------------------------
(* Properties of the reconciliation loop *)

PassesInFlight == {q \in Slots : InFlight(passes[q])}

AtMostOnePass ==
    /\ Cardinality(PassesInFlight) <= 1
    /\ (PassesInFlight # {}) => refreshing

DroppedCallChangesNothing ==
    (ops'.entered /\ refreshing) =>
       /\ ops'.call = "dropped"
       /\ ~ops'.polled
       /\ ops'.created = {} /\ ops'.removed = {} /\ ~ops'.rebuilt
       /\ UNCHANGED <<refreshing, last_containers, cards, uncategorized_cards,
                      container_list, uncategorized_list, project_tree,
                      current_project>>
       /\ \A q \in Slots :
             \/ passes'[q] = passes[q]
             \/ passes[q].pc = "pending" /\ passes'[q] = IdleFrame

SameIdsNamesImages(all_projects, last) ==
    LET all == Flatten([k \in 1..Len(all_projects) |-> all_projects[k].containers])
    IN  {<<all[i].cid, all[i].name, all[i].image>> : i \in 1..Len(all)}
          = {<<c, last[c][1], last[c][2]>> : c \in DOMAIN last}

SameButStatus(m2, m1) ==
    /\ DOMAIN m2 = DOMAIN m1
    /\ \A c \in DOMAIN m1 : [m2[c] EXCEPT !.status = m1[c].status] = m1[c]

StatusOnlyPass ==
    ( /\ ops'.entered
      /\ ~refreshing
      /\ SameIdsNamesImages(get_projects_with_containers(runtime, daemon),
                            last_containers) ) =>
       /\ ops'.created = {} /\ ops'.removed = {} /\ ~ops'.rebuilt
       /\ UNCHANGED <<container_list, uncategorized_list, project_tree,
                      current_project>>
       /\ SameButStatus(cards', cards)
       /\ SameButStatus(uncategorized_cards', uncategorized_cards)
       /\ last_containers' =
             NewSnapshot(get_projects_with_containers(runtime, daemon))

SyncResult(r) ==
    LET m == IF r.target = "u" THEN uncategorized_cards ELSE cards
        l == IF r.target = "u" THEN uncategorized_list ELSE container_list
        O == DOMAIN r.old
        N == DataIds(r.data)
    IN  /\ DOMAIN m = N
        /\ \A c \in O \cap N :
              /\ m[c].obj = r.old[c].obj
              /\ m[c] = [r.old[c] EXCEPT !.status = StatusIn(r.data, c)]
        /\ \A c \in N \ O :
              /\ m[c].obj \notin Objs(r.old)
              /\ \E i \in 1..Len(l) : l[i] = c
        /\ \A c \in O \ N :
              /\ c \notin DOMAIN m
              /\ \A i \in 1..Len(l) : l[i] # c

TickStartsPass ==
    (ops'.entered /\ PassesInFlight = {}) => ops'.call # "dropped"

----------------------------------------------------------------------------
(* src/container_action_menu.py: the log session of ContainerActionScreen. *)
(* The lines of the stream are numbered from 1; ErrorLine is the line the  *)
(* except clause of stream_logs appends, HttpErrorLine the line the        *)
(* generator yields for a response that is not 200.                        *)

LogCap == 1000

MaxLogLines == 1002

ErrorLine == 0

HttpErrorLine == -1

(* the body of the for loop of stream_logs for one line *)
AppendLogLine(lines, line) ==
    LET appended == Append(lines, line)
    IN  IF Len(appended) > LogCap THEN Tail(appended) ELSE appended

(* on_mount: keep_streaming is set and the stream_logs thread is started *)
LogOnMount ==
    /\ log_pump = "unstarted"
    /\ keep_streaming' = TRUE
    /\ log_pump' = "streaming"
    /\ UNCHANGED <<log_lines, log_next>>
    /\ UNCHANGED nonlvars

(* on_unmount: keep_streaming is cleared *)
LogOnUnmount ==
    /\ log_pump # "unstarted"
    /\ keep_streaming
    /\ keep_streaming' = FALSE
    /\ UNCHANGED <<log_lines, log_pump, log_next>>
    /\ UNCHANGED nonlvars

(* the stream yields a line to the thread, which is blocked in the         *)
(* generator: the next line of the log, or the line that reports a         *)
(* response other than 200                                                 *)
StreamYields(line) ==
    /\ log_pump = "streaming"
    /\ log_next <= MaxLogLines
    /\ line \in {log_next, HttpErrorLine}
    /\ line = HttpErrorLine => log_next = 1
    /\ log_pump' = IF line = HttpErrorLine THEN "got_error_line" ELSE "got_line"
    /\ UNCHANGED <<log_lines, keep_streaming, log_next>>
    /\ UNCHANGED nonlvars

(* the body of the for loop: it breaks when keep_streaming is cleared,     *)
(* else appends the line and evicts the oldest one over the cap            *)
StreamLine ==
    /\ log_pump \in {"got_line", "got_error_line"}
    /\ IF ~keep_streaming
       THEN /\ log_pump' = "ended"
            /\ UNCHANGED <<log_lines, log_next>>
       ELSE /\ log_lines' = AppendLogLine(log_lines,
                               IF log_pump = "got_line" THEN log_next
                               ELSE HttpErrorLine)
            /\ log_next' = log_next + 1
            /\ log_pump' = IF log_pump = "got_line" THEN "streaming"
                           ELSE "closing"
    /\ UNCHANGED keep_streaming
    /\ UNCHANGED nonlvars

(* the stream ends: the generator returns and the for loop is left *)
StreamEnds ==
    /\ log_pump \in {"streaming", "closing"}
    /\ log_pump' = "ended"
    /\ UNCHANGED <<log_lines, keep_streaming, log_next>>
    /\ UNCHANGED nonlvars

(* the stream raises (the connection is lost): the except clause appends   *)
(* the error line                                                          *)
StreamRaises ==
    /\ log_pump = "streaming"
    /\ log_lines' = Append(log_lines, ErrorLine)
    /\ log_pump' = "ended"
    /\ UNCHANGED <<keep_streaming, log_next>>
    /\ UNCHANGED nonlvars

NextLogs ==
    \/ LogOnMount
    \/ LogOnUnmount
    \/ \E line \in (1..MaxLogLines) \cup {HttpErrorLine} : StreamYields(line)
    \/ StreamLine
    \/ StreamEnds
    \/ StreamRaises

InitLogSession ==
    /\ runtime = [c \in Ids |-> Gone]
    /\ InitManager
    /\ InitLogs
    /\ InitShell
    /\ InitClient
    /\ InitPoll
    /\ InitExec
    /\ InitView
    /\ InitSent
    /\ InitProjectCall
    /\ InitTab
    /\ InitSplit

SpecLogs == InitLogSession /\ [][NextLogs]_vars

(* C5: log_lines never holds more than 1000 lines after an append, on      *)
(* every path of stream_logs, the error-line path included, and the        *)
(* lines it holds are the latest lines of the stream in their order.       *)
C5_LogCap ==
    /\ Len(log_lines) <= LogCap
    /\ \A i \in 1..(Len(log_lines) - 1) :
          log_lines[i + 1] > 0 => log_lines[i + 1] = log_lines[i] + 1

(* The thread of stream_logs is scheduled: once the generator has yielded  *)
(* a line, the body of the loop runs.  Nothing makes the container write   *)
(* to its log, end the stream or break the connection.                     *)
SpecLogsLive == SpecLogs /\ WF_vars(StreamLine)

(* C15: once the screen is closed (keep_streaming cleared by on_unmount    *)
(* after the thread was started), the stream_logs thread eventually ends.  *)
C15_PumpStops ==
    (log_pump # "unstarted" /\ ~keep_streaming) ~> (log_pump = "ended")

----------------------------------------------------------------------------
(* src/container_action_menu.py: the shell session of ContainerActionScreen *)
(* A task runs from one await to the next in one step.  The awaits that    *)
(* give up control are open_docker_shell and shell_reader.read; a read     *)
(* returns at once when the connection has output waiting.                 *)

Line(k, text) == [cmd |-> k, kind |-> "line", text |-> text]

Esc(k) == [cmd |-> k, kind |-> "esc", text |-> ""]

(* what the shell of the container sends back for "clear": the clear-screen *)
(* sequence, or an error line when the image has no clear                  *)
ClearOutput(clr, k) ==
    IF clr = "esc" THEN <<Esc(k)>> ELSE <<Line(k, "sh: clear: not found")>>

(* what the shell sends back for a command: its echo, then its output; top *)
(* redraws the screen                                                      *)
CommandOutput(cmd, k) ==
    IF cmd = "top" THEN <<Line(k, cmd), Esc(k), Line(k, "scr")>>
    ELSE <<Line(k, cmd), Line(k, "out")>>

ShellState ==
    [available |-> shell_available, checked |-> shell_checked,
     reader |-> shell_reader, writer |-> shell_writer, task |-> shell_task,
     lines |-> shell_lines, history |-> command_history, conns |-> conns,
     pumps |-> pumps, opens |-> opens, unmounted |-> unmounted,
     disabled |-> input_disabled, hindex |-> history_index,
     value |-> input_value,
     ev |-> ShellOpsNone]

ShellCommit(st) ==
    /\ shell_available' = st.available
    /\ shell_reader' = st.reader
    /\ shell_writer' = st.writer
    /\ shell_task' = st.task
    /\ shell_lines' = st.lines
    /\ command_history' = st.history
    /\ conns' = st.conns
    /\ pumps' = st.pumps
    /\ opens' = st.opens
    /\ unmounted' = st.unmounted
    /\ input_disabled' = st.disabled
    /\ history_index' = st.hindex
    /\ input_value' = st.value
    /\ sops' = st.ev

LivePumps(ps) == {p \in DOMAIN ps : ps[p].pc \in {"new", "waiting"}}

FreeConns(cs) == {c \in DOMAIN cs : cs[c].state = "unused"}

FreePumps(ps) == {p \in DOMAIN ps : ps[p].pc = "unused"}

Lowest(S) == CHOOSE x \in S : \A y \in S : x <= y

(* list.insert(-1, x): before the last element *)
InsertAbovePrompt(lines, x) ==
    IF lines = <<>> THEN <<x>>
    ELSE SubSeq(lines, 1, Len(lines) - 1) \o <<x, lines[Len(lines)]>>

(* "if len(self.shell_lines) > 1000": keep the last 900 lines and a marker *)
Truncate(lines) ==
    IF Len(lines) > ShellCap
    THEN SubSeq(lines, Len(lines) - ShellKeep + 1, Len(lines))
           \o <<"[dim]... older output truncated ...[/dim]">>
    ELSE lines

(* _safe_close(writer) *)
SafeClose(st, w) ==
    IF w = NoConn THEN st ELSE [st EXCEPT !.conns[w].state = "closed"]

(* "if self.shell_task and not self.shell_task.done(): cancel()": the pump  *)
(* gets CancelledError at its await and ends                               *)
CancelTask(st) ==
    IF st.task # NoPump /\ st.task \in LivePumps(st.pumps)
    THEN [st EXCEPT !.pumps[st.task].pc = "done"]
    ELSE st

(* self.shell_task = asyncio.create_task(self.read_shell_output()) *)
StartPump(st) ==
    LET p == Lowest(FreePumps(st.pumps))
    IN  [st EXCEPT !.pumps[p] = [UnusedPump EXCEPT !.pc = "new"],
                   !.task = p,
                   !.ev.started = p,
                   !.ev.superseded = (LivePumps(st.pumps) = {})]

(* open_docker_shell raises: the connection attempt is used up *)
Refused(st) ==
    [st EXCEPT !.conns[Lowest(FreeConns(st.conns))].state = "refused"]

(* the connection open_docker_shell returns *)
OpenConn(st) ==
    LET c == Lowest(FreeConns(st.conns))
    IN  [st EXCEPT !.conns[c].state = "open", !.reader = c, !.writer = c,
                   !.ev.conn = c]

(* read_shell_output: the lines of one chunk, in order.  ProcessLines      *)
(* evaluates its arguments once and hands the values to EachLine.          *)
RECURSIVE ProcessLines(_, _, _)
RECURSIVE EachLine(_, _, _)
ProcessLines(st, p, items) ==
    CHOOSE r \in {EachLine(a[1], p, a[2]) : a \in {<<st, items>>}} : TRUE

EachLine(st, p, items) ==
    IF items = <<>> THEN st
    ELSE
      LET it == Head(items)
          pump == st.pumps[p]
          ev == [cmd |-> it.cmd, esc_cmd |-> pump.esc_cmd,
                 chunk_esc |-> st.ev.chunk_esc,
                 mode |-> IF pump.is_realtime_cmd THEN "replace" ELSE "append"]
          next ==
            IF st.history # <<>> /\ it.text = st.history[Len(st.history)]
            THEN st
            ELSE IF pump.is_realtime_cmd
            THEN LET ro == Append(pump.realtime_output, it.text)
                 IN  [st EXCEPT !.pumps[p].realtime_output = ro,
                                !.lines = ro \o <<PROMPT>>,
                                !.ev.lines = st.ev.lines \cup {ev}]
            ELSE IF it.text = ""
            THEN [st EXCEPT !.lines = InsertAbovePrompt(st.lines, it.text),
                            !.ev.lines = st.ev.lines \cup {ev}]
            ELSE [st EXCEPT !.lines = InsertAbovePrompt(Truncate(st.lines), it.text),
                            !.ev.lines = st.ev.lines \cup {ev}]
      IN  ProcessLines(next, p, Tail(items))

(* read_shell_output: one chunk read from the connection.  A cursor-home   *)
(* or clear-screen sequence anywhere in it sets is_realtime_cmd and        *)
(* empties realtime_output before the lines of the chunk are handled.      *)
ProcessChunk(st, p, items) ==
    LET escs == SelectSeq(items, LAMBDA it : it.kind = "esc")
        st1 == IF escs = <<>> THEN [st EXCEPT !.ev.chunk_esc = FALSE]
               ELSE [st EXCEPT !.ev.chunk_esc = TRUE,
                               !.pumps[p].is_realtime_cmd = TRUE,
                               !.pumps[p].realtime_output = <<>>,
                               !.pumps[p].esc_cmd = escs[Len(escs)].cmd]
    IN  ProcessLines(st1, p, SelectSeq(items, LAMBDA it : it.kind = "line"))

(* read_shell_output after its loop: the session is closed *)
PumpCloses(st, p) ==
    [st EXCEPT !.lines = Append(st.lines, "[red]Shell session closed. Type a command to reconnect.[/red]"),
               !.reader = NoConn,
               !.writer = NoConn,
               !.pumps[p].pc = "done"]

(* read_shell_output, "except Exception": read() raises RuntimeError when  *)
(* another coroutine is already waiting on the same reader                 *)
PumpFails(st, p) ==
    [st EXCEPT !.lines = Append(st.lines, "[red]Error reading shell[/red]"),
               !.pumps[p].pc = "done"]

(* read_shell_output from the head of its while loop to its next await.    *)
(* PumpLoop evaluates its argument once and hands the value to WhileLoop.  *)
RECURSIVE PumpLoop(_, _)
RECURSIVE WhileLoop(_, _)
PumpLoop(st, p) == CHOOSE r \in {WhileLoop(a, p) : a \in {st}} : TRUE

WhileLoop(st, p) ==
    IF \/ st.reader = NoConn
       \/ st.conns[st.reader].state = "closed" /\ st.conns[st.reader].out = <<>>
    THEN PumpCloses(st, p)
    ELSE LET c == st.reader
         IN  IF st.conns[c].out # <<>>
             THEN PumpLoop(ProcessChunk([st EXCEPT !.conns[c].out = <<>>], p,
                                        st.conns[c].out), p)
             ELSE IF \E q \in LivePumps(st.pumps) \ {p} :
                        st.pumps[q].pc = "waiting" /\ st.pumps[q].conn = c
             THEN PumpFails(st, p)
             ELSE [st EXCEPT !.pumps[p].pc = "waiting", !.pumps[p].conn = c]

(* read_shell_output resumed in "await self.shell_reader.read(1024)" *)
PumpWakes(st, p) ==
    LET c == st.pumps[p].conn
    IN  IF st.conns[c].out # <<>>
        THEN PumpLoop(ProcessChunk([st EXCEPT !.conns[c].out = <<>>], p,
                                   st.conns[c].out), p)
        ELSE PumpCloses(st, p)

(* update_terminal_ui: the input is disabled while the check is pending    *)
(* and when there is no shell; with a shell the input is enabled and, with *)
(* no reader, action_open_shell is started as a task of its own            *)
update_terminal_ui(st) ==
    IF ~st.checked \/ ~st.available
    THEN [st EXCEPT !.disabled = TRUE]
    ELSE IF st.reader = NoConn
    THEN [st EXCEPT !.disabled = FALSE, !.opens["t1"] = "spawned"]
    ELSE [st EXCEPT !.disabled = FALSE]

(* action_open_shell up to "await open_docker_shell(...)" *)
OpenShellBegin(st, o) ==
    IF ~st.available
    THEN [st EXCEPT !.lines = Append(st.lines, "[red]No shell available in this container[/red]"),
                    !.opens[o] = "idle"]
    ELSE LET st1 == IF st.writer # NoConn
                    THEN [SafeClose(st, st.writer) EXCEPT !.reader = NoConn,
                                                          !.writer = NoConn]
                    ELSE st
         IN  [st1 EXCEPT !.lines = <<"[yellow]Connecting to shell...[/yellow]">>,
                         !.opens[o] = "connecting"]

(* action_open_shell after open_docker_shell has returned or raised *)
OpenShellEnd(st, o, res) ==
    IF res = "ok"
    THEN LET st1 == OpenConn(st)
             st2 == [st1 EXCEPT !.lines = st1.lines \o
                        <<"[green]Connected to shell[/green]", PROMPT>>]
         IN  [StartPump(CancelTask(st2)) EXCEPT !.opens[o] = "idle"]
    ELSE LET st1 == [Refused(st) EXCEPT
                        !.lines = Append(st.lines, "[red]Failed to connect[/red]"),
                        !.opens[o] = "idle"]
         IN  IF res = "no shell"
             THEN update_terminal_ui([st1 EXCEPT !.available = FALSE])
             ELSE st1

(* "if self.shell_task and not self.shell_task.done():" cancel it and set  *)
(* shell_task to None                                                      *)
CancelAndForget(st) ==
    IF st.task # NoPump /\ st.task \in LivePumps(st.pumps)
    THEN [CancelTask(st) EXCEPT !.task = NoPump]
    ELSE st

(* what a command would put on the connection if it were written alone *)
CommandOnly(cmd) == <<cmd>>

(* what on_input_submitted writes for a command: "clear\n" first, then the *)
(* command and "\n"                                                        *)
ClearThenCommand(cmd) == <<"clear", cmd>>

(* on_input_submitted from the exit check on: exit closes the session;     *)
(* any other command is written after "clear", and the buffer is reset to  *)
(* the command and the prompt                                              *)
SubmitRest(st, cmd, clr, k) ==
    IF Lower(cmd) = "exit"
    THEN LET st1 == [SafeClose(st, st.writer) EXCEPT
                        !.lines = Append(st.lines, "[yellow]Closing shell session...[/yellow]"),
                        !.reader = NoConn,
                        !.writer = NoConn]
         IN  [CancelAndForget(st1) EXCEPT !.ev.submit = "exit", !.ev.command = cmd]
    ELSE LET w == st.writer
         IN  [st EXCEPT
                !.conns[w].written = st.conns[w].written \o ClearThenCommand(cmd),
                !.conns[w].out = st.conns[w].out \o ClearOutput(clr, k)
                                   \o CommandOutput(cmd, k),
                !.lines = <<cmd, PROMPT>>,
                !.history = Append(st.history, cmd),
                !.hindex = -1,
                !.ev.submit = "sent",
                !.ev.command = cmd]

(* on_input_submitted with no usable writer, up to                         *)
(* "await open_docker_shell(...)"                                          *)
SubmitReconnect(st) ==
    LET st1 == [st EXCEPT !.lines = Append(st.lines, "[yellow]Reconnecting shell...[/yellow]")]
        st2 == IF st1.writer # NoConn
               THEN [SafeClose(st1, st1.writer) EXCEPT !.reader = NoConn,
                                                       !.writer = NoConn]
               ELSE st1
    IN  CancelAndForget(st2)

(* "not self.shell_writer or self.shell_writer.is_closing()" *)
WriterUnusable(st) ==
    st.writer = NoConn \/ st.conns[st.writer].state = "closed"

(* the Input widgets of the screen *)
Inputs == {"shell-input", "log-filter"}

(* the capability check started by on_mount ends *)
check_shell_availability(avail) ==
    /\ ~shell_checked
    /\ shell_checked' = TRUE
    /\ LET st == [ShellState EXCEPT !.available = avail, !.checked = TRUE]
       IN  ShellCommit(IF active_tab = "Terminal" THEN update_terminal_ui(st) ELSE st)
    /\ UNCHANGED <<active_tab, handler, submitted>>
    /\ UNCHANGED nonsvars

(* action_switch_tab_prev / action_switch_tab_next: after a switch to the  *)
(* Terminal tab, call_after_refresh(self.action_open_shell)                *)
SwitchedBy(st, tab, via) ==
    IF via = "keys" /\ tab = "Terminal"
    THEN [st EXCEPT !.opens["cb"] = "queued"]
    ELSE st

(* a tab is activated, by a click on it or by the left / right keys; a     *)
(* handler of the screen's message pump                                    *)
on_tabbed_content_tab_activated(tab, via) ==
    /\ ~unmounted
    /\ handler.pc = "idle"
    /\ opens["cb"] = "idle"
    /\ tab # active_tab
    /\ active_tab' = tab
    /\ IF tab = "Terminal" /\ shell_checked
       THEN /\ opens["t1"] = "idle"
            /\ ShellCommit(SwitchedBy(update_terminal_ui(ShellState), tab, via))
       ELSE ShellCommit(SwitchedBy(ShellState, tab, via))
    /\ UNCHANGED <<shell_checked, handler, submitted>>
    /\ UNCHANGED nonsvars

(* action_switch_tab_prev / action_switch_tab_next on the Terminal tab:    *)
(* call_after_refresh(self.action_open_shell), run by the message pump     *)
OpenShellCallback ==
    /\ ~unmounted
    /\ handler.pc = "idle"
    /\ opens["cb"] = "queued"
    /\ ~shell_available => Len(shell_lines) < MaxBanners
    /\ ShellCommit(OpenShellBegin(ShellState, "cb"))
    /\ UNCHANGED <<shell_checked, active_tab, handler, submitted>>
    /\ UNCHANGED nonsvars

(* the task created by update_terminal_ui starts to run *)
OpenShellTaskRuns(o) ==
    /\ opens[o] = "spawned"
    /\ ShellCommit(OpenShellBegin(ShellState, o))
    /\ UNCHANGED <<shell_checked, active_tab, handler, submitted>>
    /\ UNCHANGED nonsvars

(* open_docker_shell returns a connection, or raises *)
OpenShellConnects(o, res) ==
    /\ opens[o] = "connecting"
    /\ FreeConns(conns) # {}
    /\ res = "ok" => FreePumps(pumps) # {}
    /\ ShellCommit(OpenShellEnd(ShellState, o, res))
    /\ UNCHANGED <<shell_checked, active_tab, handler, submitted>>
    /\ UNCHANGED nonsvars

(* on_input_submitted with a non-empty command.  The handler receives the  *)
(* Submitted message of every Input of the screen and does not look at     *)
(* event.input.id: of the shell input on the Terminal tab (when it is not  *)
(* disabled) and of the log filter on the Logs tab.                        *)
on_input_submitted(inp, text, clr) ==
    /\ ~unmounted
    /\ handler.pc = "idle"
    /\ opens["cb"] # "connecting"
    /\ inp = "shell-input" => active_tab = "Terminal" /\ ~input_disabled
    /\ inp = "log-filter" => active_tab = "Logs"
    /\ LET cmd == Strip(text)
           st == IF inp = "shell-input" THEN [ShellState EXCEPT !.value = ""]
                 ELSE ShellState
       IN  IF cmd = ""
           THEN /\ ShellCommit([st EXCEPT !.ev.submit = "empty"])
                /\ UNCHANGED <<handler, submitted>>
           ELSE /\ submitted < MaxCommands
                /\ submitted' = submitted + 1
                /\ IF WriterUnusable(st)
                   THEN /\ ShellCommit(SubmitReconnect(st))
                        /\ handler' = [pc |-> "reconnecting", command |-> cmd,
                                       clear |-> clr, opened |-> NoConn]
                   ELSE /\ ShellCommit(SubmitRest(st, cmd, clr, submitted + 1))
                        /\ handler' = IdleHandler
    /\ UNCHANGED <<shell_checked, active_tab>>
    /\ UNCHANGED nonsvars

(* on_input_submitted after open_docker_shell has returned or raised *)
SubmitReconnects(res) ==
    /\ handler.pc = "reconnecting"
    /\ FreeConns(conns) # {}
    /\ res = "ok" => FreePumps(pumps) # {}
    /\ IF res = "ok"
       THEN LET st1 == OpenConn(ShellState)
                st2 == [st1 EXCEPT !.lines = Append(st1.lines,
                           "[green]Shell reconnected successfully[/green]"),
                                   !.ev.reconnected = TRUE]
            IN  ShellCommit(SubmitRest(StartPump(st2), handler.command,
                                       handler.clear, submitted))
       ELSE LET st1 == [Refused(ShellState) EXCEPT
                          !.lines = Append(shell_lines, "[red]Failed to reconnect[/red]"),
                          !.ev.submit = "failed"]
            IN  ShellCommit(IF res = "no shell"
                            THEN update_terminal_ui([st1 EXCEPT !.available = FALSE])
                            ELSE st1)
    /\ handler' = IdleHandler
    /\ UNCHANGED <<shell_checked, active_tab, submitted>>
    /\ UNCHANGED nonsvars

(* a read_shell_output task runs: for the first time, or resumed by        *)
(* output or by the end of the stream it waits on                          *)
PumpRuns(p) ==
    /\ \/ pumps[p].pc = "new"
       \/ /\ pumps[p].pc = "waiting"
          /\ \/ conns[pumps[p].conn].out # <<>>
             \/ conns[pumps[p].conn].state = "closed"
    /\ \E st \in {IF pumps[p].pc = "new" THEN PumpLoop(ShellState, p)
                    ELSE PumpWakes(ShellState, p)} : ShellCommit(st)
    /\ UNCHANGED <<shell_checked, active_tab, handler, submitted>>
    /\ UNCHANGED nonsvars

(* on_unmount, a handler of the screen's message pump: keep_streaming is   *)
(* cleared, the writer is closed, the references are dropped and the task  *)
(* that shell_task refers to is cancelled.  The tasks created with         *)
(* asyncio.create_task run on; the widgets of a closed screen stay         *)
(* attached to it, so these tasks still find them.                         *)
on_unmount ==
    /\ ~unmounted
    /\ handler.pc = "idle"
    /\ opens["cb"] # "connecting"
    /\ keep_streaming' = FALSE
    /\ LET st1 == [SafeClose(ShellState, shell_writer) EXCEPT
                      !.reader = NoConn, !.writer = NoConn,
                      !.unmounted = TRUE]
       IN  ShellCommit(CancelTask(st1))
    /\ UNCHANGED <<shell_checked, active_tab, handler, submitted>>
    /\ UNCHANGED <<log_lines, log_pump, log_next>>
    /\ UNCHANGED <<rvars, cvars, pvars, xvars, fvars, ovars, jvars, wvars, bvars>>

(* on_key with the shell input focused on the Terminal tab: up and down    *)
(* move through command_history and put the entry into the input           *)
on_key(key) ==
    /\ ~unmounted
    /\ handler.pc = "idle"
    /\ opens["cb"] # "connecting"
    /\ active_tab = "Terminal" /\ ~input_disabled
    /\ LET n == Len(command_history)
           st == ShellState
       IN  ShellCommit(
             IF n = 0 THEN st
             ELSE IF key = "up"
             THEN LET i == IF history_index = -1 THEN n - 1
                           ELSE IF history_index > 0 THEN history_index - 1
                           ELSE history_index
                  IN  [st EXCEPT !.hindex = i, !.value = command_history[i + 1],
                                 !.ev.key = key]
             ELSE IF history_index < n - 1
             THEN [st EXCEPT !.hindex = history_index + 1,
                             !.value = command_history[history_index + 2],
                             !.ev.key = key]
             ELSE [st EXCEPT !.hindex = -1, !.value = "", !.ev.key = key])
    /\ UNCHANGED <<shell_checked, active_tab, handler, submitted>>
    /\ UNCHANGED nonsvars

(* action_clear_shell, run by the screen's message pump: on the Terminal   *)
(* tab the buffer is emptied                                               *)
action_clear_shell ==
    /\ ~unmounted
    /\ handler.pc = "idle"
    /\ opens["cb"] # "connecting"
    /\ active_tab = "Terminal"
    /\ ShellCommit([ShellState EXCEPT !.lines = <<>>])
    /\ UNCHANGED <<shell_checked, active_tab, handler, submitted>>
    /\ UNCHANGED nonsvars

(* the exec connection is closed from outside *)
ConnectionDrops(c) ==
    /\ conns[c].state = "open"
    /\ ShellCommit([ShellState EXCEPT !.conns[c].state = "closed"])
    /\ UNCHANGED <<shell_checked, active_tab, handler, submitted>>
    /\ UNCHANGED nonsvars

NextShell ==
    \/ \E avail \in BOOLEAN : check_shell_availability(avail)
    \/ \E tab \in {"Logs", "Terminal"}, via \in {"click", "keys"} :
          on_tabbed_content_tab_activated(tab, via)
    \/ OpenShellCallback
    \/ \E o \in OpenTasks : OpenShellTaskRuns(o)
    \/ \E o \in OpenSlots, res \in Outcomes : OpenShellConnects(o, res)
    \/ \E inp \in Inputs, text \in Texts, clr \in {"esc", "none"} :
          on_input_submitted(inp, text, clr)
    \/ \E res \in Outcomes : SubmitReconnects(res)
    \/ \E p \in 1..MaxPumps : PumpRuns(p)
    \/ \E c \in 1..MaxConns : ConnectionDrops(c)
    \/ action_clear_shell
    \/ on_unmount

InitShellSession ==
    /\ runtime = [c \in Ids |-> Gone]
    /\ InitManager
    /\ InitLogs
    /\ InitShell
    /\ InitClient
    /\ InitPoll
    /\ InitExec
    /\ InitView
    /\ InitSent
    /\ InitProjectCall
    /\ InitTab
    /\ InitSplit

SpecShell == InitShellSession /\ [][NextShell]_vars

(* The session up to its teardown, for the properties of what happens     *)
(* after on_unmount: the user opens the Terminal tab, may submit "ls" and  *)
(* closes the screen.  The tasks of the event loop are scheduled and the   *)
(* daemon answers: the capability check ends, a task that was created      *)
(* runs, a call of open_docker_shell returns or raises, and a pump that    *)
(* can run does.  Nothing makes the user act or the shell of the           *)
(* container end.                                                          *)
NextTeardown ==
    \/ \E avail \in BOOLEAN : check_shell_availability(avail)
    \/ \E tab \in {"Logs", "Terminal"} : on_tabbed_content_tab_activated(tab, "click")
    \/ \E o \in OpenTasks : OpenShellTaskRuns(o)
    \/ \E o \in OpenTasks, res \in Outcomes : OpenShellConnects(o, res)
    \/ on_input_submitted("shell-input", "ls", "none")
    \/ \E res \in Outcomes : SubmitReconnects(res)
    \/ \E p \in 1..MaxPumps : PumpRuns(p)
    \/ on_unmount

(* The tasks of the event loop are run whenever they can run: the          *)
(* capability check, the action_open_shell task, the two awaits of          *)
(* open_docker_shell (the daemon answers) and the output pumps.  What the   *)
(* user does is not forced.                                                 *)
SpecShellLive ==
    /\ InitShellSession
    /\ [][NextTeardown]_vars
    /\ WF_vars(\E avail \in BOOLEAN : check_shell_availability(avail))
    /\ WF_vars(\E o \in OpenTasks : OpenShellTaskRuns(o))
    /\ WF_vars(\E o \in OpenTasks, res \in Outcomes : OpenShellConnects(o, res))
    /\ WF_vars(\E res \in Outcomes : SubmitReconnects(res))
    /\ WF_vars(\E p \in 1..MaxPumps : PumpRuns(p))

(* The shell session with the history keys: one screen, the shell input    *)
(* focused, commands typed and submitted, up and down pressed.             *)
NextHistory ==
    \/ \E avail \in BOOLEAN : check_shell_availability(avail)
    \/ \E tab \in {"Logs", "Terminal"} : on_tabbed_content_tab_activated(tab, "click")
    \/ \E o \in OpenTasks : OpenShellTaskRuns(o)
    \/ \E o \in OpenTasks, res \in Outcomes : OpenShellConnects(o, res)
    \/ \E text \in Texts : on_input_submitted("shell-input", text, "none")
    \/ \E res \in Outcomes : SubmitReconnects(res)
    \/ \E p \in 1..MaxPumps : PumpRuns(p)
    \/ \E key \in {"up", "down"} : on_key(key)

SpecHistory == InitShellSession /\ [][NextHistory]_vars

----------------------------------------------------------------------------
(* Properties of the shell session *)

(* C6: at most one read_shell_output task is live at any time, and a pump  *)
(* that is started supersedes the previous one: no other pump is live when *)
(* it starts.                                                              *)
C6_OnePump ==
    /\ Cardinality(LivePumps(pumps)) <= 1
    /\ sops.started # NoPump => sops.superseded

(* C7: a command submitted while the writer is missing or closing is       *)
(* written to the writer of the exec session that on_input_submitted has   *)
(* just opened, after the new pump was started, and the session ends       *)
(* connected: reader and writer set to that session, one pump running.     *)
C7_ReconnectThenSend ==
    sops.reconnected =>
       /\ shell_reader = sops.conn
       /\ shell_writer = sops.conn
       /\ conns[sops.conn].state = "open"
       /\ conns[sops.conn].written # <<>>
       /\ conns[sops.conn].written[Len(conns[sops.conn].written)] = sops.command
       /\ sops.started = shell_task
       /\ LivePumps(pumps) = {shell_task}

(* C8: a line of output of a command later than the one whose output held  *)
(* the last cursor-home or clear-screen sequence, read in a chunk that     *)
(* holds no such sequence, is inserted above the prompt; it does not       *)
(* replace the buffer.                                                     *)
C8_AppendAfterRedraw ==
    \A e \in sops.lines :
       (e.esc_cmd < e.cmd /\ ~e.chunk_esc) => e.mode = "append"

(* C16: once on_unmount has run, eventually no read_shell_output task of   *)
(* the screen is running and no exec connection it opened is open.         *)
C16_ShellTornDown ==
    unmounted ~> (/\ LivePumps(pumps) = {}
                  /\ \A c \in DOMAIN conns : conns[c].state # "open")

(* C17: while the session is connected (the screen holds a writer), the   *)
(* prompt marker is the last entry of shell_lines after every step         *)
C17_PromptLast ==
    shell_writer # NoConn =>
        /\ shell_lines # <<>>
        /\ shell_lines[Len(shell_lines)] = PROMPT

(* a step in which action_open_shell or on_input_submitted calls           *)
(* open_docker_shell                                                       *)
CallsOpenDockerShell ==
    \/ \E o \in OpenSlots : opens[o] # "connecting" /\ opens'[o] = "connecting"
    \/ handler.pc # "reconnecting" /\ handler'.pc = "reconnecting"

(* C18: open_docker_shell is called only after the capability check has    *)
(* completed with a positive result; once the check has completed with a   *)
(* negative result shell_available stays false and, on the Terminal tab,   *)
(* the shell input is disabled                                             *)
C18_CheckedBeforeExec ==
    /\ [][CallsOpenDockerShell => shell_checked /\ shell_available]_vars
    /\ [][shell_checked /\ ~shell_available => ~shell_available']_vars
    /\ [](shell_checked /\ ~shell_available /\ active_tab = "Terminal"
            => input_disabled)

(* an exec session has been open on this screen before *)
HadSession == \E c \in DOMAIN conns : conns[c].state \in {"open", "closed"}

(* a step that takes the open connection of the screen away from it *)
TearsDown ==
    /\ shell_writer # NoConn
    /\ conns[shell_writer].state = "open"
    /\ \/ shell_writer' # shell_writer
       \/ conns'[shell_writer].state # "open"

(* C19: once the screen has had a session, open_docker_shell is called     *)
(* again only by on_input_submitted; and a connected session is ended only *)
(* by the end of its stream, by exit or by on_unmount                      *)
C19_LazyReconnect ==
    /\ [][(CallsOpenDockerShell /\ HadSession)
             => handler.pc = "idle" /\ handler'.pc = "reconnecting"]_vars
    /\ [][TearsDown => \/ unmounted'
                       \/ sops'.submit = "exit"
                       \/ shell_writer' = shell_writer]_vars

(* a step in which on_input_submitted receives the command exit *)
ExitSubmitted ==
    /\ submitted' = submitted + 1
    /\ \/ Lower(sops'.command) = "exit"
       \/ handler'.pc = "reconnecting" /\ Lower(handler'.command) = "exit"

(* C20: a submitted exit, in any letter case, closes the writer, clears    *)
(* shell_reader and shell_writer and cancels the pump of shell_task; it    *)
(* writes nothing to any connection and does not call open_docker_shell    *)
C20_ExitCloses ==
    [][ExitSubmitted =>
          /\ shell_reader' = NoConn
          /\ shell_writer' = NoConn
          /\ shell_writer # NoConn => conns'[shell_writer].state = "closed"
          /\ shell_task # NoPump => shell_task \notin LivePumps(pumps')
          /\ \A c \in DOMAIN conns : conns'[c].written = conns[c].written
          /\ handler'.pc = "idle"]_vars

(* C21: a submitted command that is not exit, on a connected session,      *)
(* writes its trimmed text and nothing else, is appended to                *)
(* command_history and resets history_index; a submission that is empty    *)
(* after trimming writes nothing and leaves history, buffer and connection *)
(* as they are                                                             *)
C21_WritesCommand ==
    /\ [][(sops'.submit = "sent" /\ ~sops'.reconnected) =>
             /\ conns'[shell_writer].written
                  = Append(conns[shell_writer].written, sops'.command)
             /\ \A c \in DOMAIN conns \ {shell_writer} :
                   conns'[c].written = conns[c].written
             /\ command_history' = Append(command_history, sops'.command)
             /\ history_index' = -1]_vars
    /\ [][sops'.submit = "empty" =>
             UNCHANGED <<command_history, history_index, shell_lines, conns,
                         shell_reader, shell_writer, shell_task, pumps>>]_vars

(* C21, as the code has it: the handler writes "clear" before the command, *)
(* each followed by a newline, and nothing else; the command is appended   *)
(* to command_history and history_index is reset; an empty submission      *)
(* changes nothing                                                         *)
C21_WritesClearThenCommand ==
    /\ [][(sops'.submit = "sent" /\ ~sops'.reconnected) =>
             /\ conns'[shell_writer].written
                  = conns[shell_writer].written \o <<"clear", sops'.command>>
             /\ \A c \in DOMAIN conns \ {shell_writer} :
                   conns'[c].written = conns[c].written
             /\ command_history' = Append(command_history, sops'.command)
             /\ history_index' = -1]_vars
    /\ [][sops'.submit = "empty" =>
             UNCHANGED <<command_history, history_index, shell_lines, conns,
                         shell_reader, shell_writer, shell_task, pumps>>]_vars

C21_Witness ==
    /\ sops.submit = "sent"
    /\ ~sops.reconnected
    /\ Len(command_history) = 2
    /\ history_index = -1
    /\ shell_writer # NoConn
    /\ Len(conns[shell_writer].written) = 4

(* a step of on_key that moves through a non-empty command_history *)
KeyStep(key) == sops'.key = key

(* the text of the shell input when history_index is i *)
Shown(i) == IF i = -1 THEN "" ELSE command_history[i + 1]

(* C22: up and down never submit and never wrap between the oldest and the *)
(* newest entry: up from the empty line shows the newest entry, up at the  *)
(* oldest stays there, down moves one entry towards the newest, down at    *)
(* the newest returns to the empty line, down on the empty line stays on   *)
(* the empty line                                                          *)
C22_HistoryClamps ==
    /\ [][sops'.key # "" =>
             /\ UNCHANGED <<command_history, conns, submitted, handler>>
             /\ history_index' \in -1..(Len(command_history) - 1)
             /\ input_value' = Shown(history_index')]_vars
    /\ [][KeyStep("up") =>
             history_index' = IF history_index = -1
                              THEN Len(command_history) - 1
                              ELSE IF history_index = 0 THEN 0
                              ELSE history_index - 1]_vars
    /\ [][KeyStep("down") =>
             history_index' = IF history_index = -1 THEN -1
                              ELSE IF history_index = Len(command_history) - 1
                              THEN -1
                              ELSE history_index + 1]_vars

----------------------------------------------------------------------------
(* src/service.py: start_container, stop_container, delete_container.  A   *)
(* call sends one request to the daemon and turns the status code of the   *)
(* response into a boolean.  The daemon answers from the state of the      *)
(* container: 204 when it did what was asked, 304 when the container was   *)
(* already in the state asked for, 404 when there is no such container,    *)
(* 409 when a running container is to be removed without force, 500 when   *)
(* the daemon fails; when the socket cannot be reached the request raises. *)

NoResponse == 0

NoContent == 204

NotModified == 304

NotFound == 404

Conflict == 409

ServerError == 500

(* POST /containers/{id}/start *)
StartResponse(rt, fault, c) ==
    IF fault = "transport" THEN NoResponse
    ELSE IF fault = "http" THEN ServerError
    ELSE IF ~rt[c].present THEN NotFound
    ELSE IF rt[c].status = "Up" THEN NotModified
    ELSE NoContent

(* POST /containers/{id}/stop *)
StopResponse(rt, fault, c) ==
    IF fault = "transport" THEN NoResponse
    ELSE IF fault = "http" THEN ServerError
    ELSE IF ~rt[c].present THEN NotFound
    ELSE IF rt[c].status = "Exited" THEN NotModified
    ELSE NoContent

(* DELETE /containers/{id} and DELETE /containers/{id}?force=true *)
DeleteResponse(rt, fault, c, force) ==
    IF fault = "transport" THEN NoResponse
    ELSE IF fault = "http" THEN ServerError
    ELSE IF ~rt[c].present THEN NotFound
    ELSE IF rt[c].status = "Up" /\ ~force THEN Conflict
    ELSE NoContent

(* the runtime after the daemon has answered *)
AfterStart(rt, code, c) ==
    IF code = NoContent THEN [rt EXCEPT ![c].status = "Up"] ELSE rt

AfterStop(rt, code, c) ==
    IF code = NoContent THEN [rt EXCEPT ![c].status = "Exited"] ELSE rt

AfterDelete(rt, code, c) ==
    IF code = NoContent THEN [rt EXCEPT ![c] = Gone] ELSE rt

AcceptsStopped(code) == code = NoContent

AcceptsRemoved(code) == code = NoContent

(* "return resp.status_code == 204" *)
StartAccepted(code) == code = NoContent

(* "return resp.status_code in (204, 304)" *)
StopAccepted(code) == code \in {NoContent, NotModified}

(* "return resp.status_code in (204, 404)" *)
DeleteAccepted(code) == code \in {NoContent, NotFound}

(* one call: what was asked, what the runtime held, what came back; "at"   *)
(* is the number of changes made to the runtime from outside so far        *)
Call(op, c, force, code, accepted) ==
    [op |-> op, cid |-> c, force |-> force, present |-> runtime[c].present,
     fault |-> daemon, code |-> code, raised |-> (code = NoResponse),
     result |-> (code # NoResponse /\ accepted), at |-> changes]

Remember(cs, call) ==
    IF Len(cs) < 2 THEN Append(cs, call) ELSE <<cs[2], call>>

start_container(c) ==
    /\ LET code == StartResponse(runtime, daemon, c)
       IN  /\ runtime' = AfterStart(runtime, code, c)
           /\ calls' = Remember(calls, Call("start", c, FALSE, code,
                                            StartAccepted(code)))
    /\ UNCHANGED <<daemon, changes, refreshing, last_containers, cards,
                   uncategorized_cards, container_list, uncategorized_list,
                   project_tree, current_project, passes, ops>>
    /\ UNCHANGED <<lvars, svars, pvars, xvars, fvars, ovars, jvars, wvars, bvars>>

stop_container(c) ==
    /\ LET code == StopResponse(runtime, daemon, c)
       IN  /\ runtime' = AfterStop(runtime, code, c)
           /\ calls' = Remember(calls, Call("stop", c, FALSE, code,
                                            StopAccepted(code)))
    /\ UNCHANGED <<daemon, changes, refreshing, last_containers, cards,
                   uncategorized_cards, container_list, uncategorized_list,
                   project_tree, current_project, passes, ops>>
    /\ UNCHANGED <<lvars, svars, pvars, xvars, fvars, ovars, jvars, wvars, bvars>>

delete_container(c, force) ==
    /\ LET code == DeleteResponse(runtime, daemon, c, force)
       IN  /\ runtime' = AfterDelete(runtime, code, c)
           /\ calls' = Remember(calls, Call("delete", c, force, code,
                                            DeleteAccepted(code)))
    /\ UNCHANGED <<daemon, changes, refreshing, last_containers, cards,
                   uncategorized_cards, container_list, uncategorized_list,
                   project_tree, current_project, passes, ops>>
    /\ UNCHANGED <<lvars, svars, pvars, xvars, fvars, ovars, jvars, wvars, bvars>>

(* the containers the calls are made for: one that "docker compose up"    *)
(* has created and one that comes and goes from outside                    *)
Targets == {"A", "C"}

NextClient ==
    \/ \E c \in Targets : \E r \in Variants(c) : RuntimeChange(c, r)
    \/ \E d \in Faults : DaemonChange(d)
    \/ \E c \in Targets : start_container(c)
    \/ \E c \in Targets : stop_container(c)
    \/ \E c \in Targets, force \in BOOLEAN : delete_container(c, force)

InitClientSession ==
    /\ \E S \in StartSets :
          runtime = [c \in Ids |-> IF c \in S THEN Created(c) ELSE Gone]
    /\ InitManager
    /\ InitLogs
    /\ InitShell
    /\ InitClient
    /\ InitPoll
    /\ InitExec
    /\ InitView
    /\ InitSent
    /\ InitProjectCall
    /\ InitTab
    /\ InitSplit

SpecClient == InitClientSession /\ [][NextClient]_vars

----------------------------------------------------------------------------
(* Properties of the lifecycle calls *)

(* two calls of the same operation on the same container, one right after  *)
(* the other: the runtime was not changed from outside in between          *)
InARow(op) ==
    /\ Len(calls) = 2
    /\ calls[1].op = op /\ calls[2].op = op
    /\ calls[1].cid = calls[2].cid
    /\ calls[1].at = calls[2].at

(* C9: when stop_container is called twice in a row for a container that   *)
(* exists, on a daemon that answers, both calls return True and the second *)
(* call gets the already-stopped response 304.                             *)
C9_StopTwice ==
    (InARow("stop") /\ calls[1].present /\ calls[1].fault = "ok") =>
       /\ calls[1].result
       /\ calls[2].result
       /\ calls[2].code = NotModified

C9_Witness ==
    /\ InARow("stop")
    /\ calls[1].present /\ calls[1].fault = "ok"
    /\ calls[1].code = NoContent
    /\ calls[2].code = NotModified /\ calls[2].result

(* C10: a call of delete_container that gets an answer returns True        *)
(* exactly when the daemon answered from the state of the container and    *)
(* the container does not exist right after the call (before the runtime   *)
(* is changed from outside again), which is when the runtime               *)
(* removed it (204) or had no such container (404); for every other        *)
(* answer it returns False.  When a delete returned True, the same delete  *)
(* made again right after it returns True too, on the answer 404.          *)
C10_DeleteTwice ==
    /\ (calls # <<>> /\ calls[Len(calls)].op = "delete"
          /\ ~calls[Len(calls)].raised /\ calls[Len(calls)].at = changes) =>
         LET call == calls[Len(calls)]
         IN  /\ call.result <=> (call.fault = "ok" /\ ~runtime[call.cid].present)
             /\ call.result <=> call.code \in {NoContent, NotFound}
    /\ (InARow("delete") /\ calls[1].result) =>
         (calls[2].result /\ calls[2].code = NotFound)

C10_Witness ==
    /\ InARow("delete")
    /\ calls[1].present /\ calls[1].code = NoContent /\ calls[1].result
    /\ calls[2].code = NotFound /\ calls[2].result

(* C11: a call of start_container that gets an answer returns True exactly *)
(* when the runtime reports that it started the container (204) or that    *)
(* the container was already running (304); for every other answer it      *)
(* returns False.                                                          *)
C11_StartResult ==
    (calls # <<>> /\ calls[Len(calls)].op = "start"
       /\ ~calls[Len(calls)].raised) =>
      (calls[Len(calls)].result <=>
          calls[Len(calls)].code \in {NoContent, NotModified})

----------------------------------------------------------------------------
(* src/service.py: get_projects_with_containers on the array the daemon    *)
(* answers with.  Each element carries the full id of its container; the   *)
(* daemon never lists one full id twice.  The record surfaced to the UI    *)
(* carries the first twelve characters of the id.                          *)

MaxListing == 3

ShortLen == 12

Filled(d) == [i \in 1..ShortLen |-> d]

(* full ids: the first two differ only after the twelfth character *)
FullIds == {Filled(1) \o <<1>>, Filled(1) \o <<2>>, Filled(2) \o <<1>>}

(* the compose project label of a listed container; "" when it has none *)
Labels == {"", "P", "Q"}

ContainerDicts == [Id : FullIds, project : Labels]

Listings ==
    {l \in UNION {[1..n -> ContainerDicts] : n \in 0..MaxListing} :
        \A i, j \in 1..Len(l) : l[i].Id = l[j].Id => i = j}

(* str(container.get("Id", ""))[:12] *)
ShortId(id) == SubSeq(id, 1, IF Len(id) < ShortLen THEN Len(id) ELSE ShortLen)

(* the loop over enumerate(data) and projects.setdefault(project, []) *)
GroupByProject(data) ==
    LET label == [i \in 1..Len(data) |->
                     IF data[i].project = "" THEN Uncategorized
                     ELSE data[i].project]
        order == Dedup(label)
        group(p) ==
            LET at == SelectSeq([i \in 1..Len(data) |-> i],
                                LAMBDA i : label[i] = p)
            IN  [k \in 1..Len(at) |->
                    Tuple5(at[k], ShortId(data[at[k]].Id), "n", "img", "Up")]
    IN  IF data = <<>> THEN NoProjectsGroup
        ELSE [k \in 1..Len(order) |->
                 [project |-> order[k], containers |-> group(order[k])]]

(* one poll: the daemon answers with a listing and the function groups it *)
Poll(data) ==
    /\ listing' = data
    /\ poll_result' = GroupByProject(data)
    /\ UNCHANGED nonpvars

NextPoll == \E data \in Listings : Poll(data)

InitPollSession ==
    /\ runtime = [c \in Ids |-> Gone]
    /\ InitManager
    /\ InitLogs
    /\ InitShell
    /\ InitClient
    /\ InitPoll
    /\ InitExec
    /\ InitView
    /\ InitSent
    /\ InitProjectCall
    /\ InitTab
    /\ InitSplit

SpecPoll == InitPollSession /\ [][NextPoll]_vars

----------------------------------------------------------------------------
(* Properties of a poll *)

SurfacedRecords(groups) ==
    Flatten([k \in 1..Len(groups) |-> groups[k].containers])

(* C12: within one poll result no two records, over all the project groups *)
(* get_projects_with_containers returns, carry the same id.                *)
C12_UniqueIds ==
    LET rs == SurfacedRecords(poll_result)
    IN  \A i, j \in 1..Len(rs) : rs[i].cid = rs[j].cid => i = j

----------------------------------------------------------------------------
(* src/container_exec.py: check_shell_availability, create_exec_instance   *)
(* and open_docker_shell.  The requests are blocking calls, so each        *)
(* function runs to its return, or to its await, in one step.  The daemon  *)
(* answers a request with a status code, or the request raises             *)
(* (NoResponse).                                                           *)

HttpOk == 200

HttpCreated == 201

(* what a request to create an exec can meet *)
ExecResponses == {HttpOk, HttpCreated, Conflict, NoResponse}

(* what a request of the probe can meet *)
ProbeResponses == {HttpOk, HttpCreated, NotFound, NoResponse}

(* shell_configs, in list order, and basic_config after them *)
ShellCandidates ==
    <<"/bin/sh -i", "/bin/bash -i", "sh -i", "/bin/sh -c exec /bin/sh", "sh">>

NumCandidates == Len(ShellCandidates)

AcceptsCreatedOnly(code) == code = HttpCreated

(* "if resp.status_code in (200, 201)" *)
Accepted(code) == code \in {HttpOk, HttpCreated}

(* create_exec_instance from candidate k on: the candidate is posted; an   *)
(* accepted one ends the function with its exec id, a rejected request or  *)
(* one that raises moves on to the next candidate; after the last one the  *)
(* function raises.  The exec id is modelled by the number of the          *)
(* candidate that created it.                                              *)
RECURSIVE TryShells(_, _, _)
TryShells(answers, k, tried) ==
    IF k > NumCandidates
    THEN [tried |-> tried, pc |-> "raised", id |-> 0,
          error |-> "could not create exec instance - no shell available"]
    ELSE LET posted == Append(tried, ShellCandidates[k])
         IN  IF answers[k] # NoResponse /\ Accepted(answers[k])
             THEN [tried |-> posted, pc |-> "returned", id |-> k, error |-> ""]
             ELSE TryShells(answers, k + 1, posted)

create_exec_instance(answers) ==
    /\ LET r == TryShells(answers, 1, <<>>)
       IN  exec_call' = [op |-> "create_exec_instance", cause |-> "-",
                         answers |-> answers, tried |-> r.tried, pc |-> r.pc,
                         id |-> r.id, error |-> r.error]
    /\ UNCHANGED nonxvars

(* why an attempt to open a shell fails, "none" when it does not *)
Causes ==
    {"none", "no shell", "not running", "missing", "socket gone",
     "socket refused"}

(* how the daemon answers the exec requests of create_exec_instance: it    *)
(* creates the exec in a running container, refuses every candidate where  *)
(* there is no shell, answers 409 for a container that is not running and  *)
(* 404 for one that does not exist                                         *)
AnswersFor(cause) ==
    [k \in 1..NumCandidates |->
        CASE cause = "no shell" -> ServerError
          [] cause = "not running" -> Conflict
          [] cause = "missing" -> NotFound
          [] OTHER -> HttpCreated]

(* str(e) of what asyncio.open_unix_connection raises, in lower case *)
SocketError(cause) ==
    CASE cause = "socket gone" -> "[errno 2] no such file or directory"
      [] cause = "socket refused" -> "[errno 111] connection refused"
      [] OTHER -> ""

(* the phrases the code looks for in a message, as far as the message      *)
(* holds them; the messages are those that occur here, in lower case       *)
Phrases(msg) ==
    CASE msg = "could not create exec instance - no shell available"
            -> {"no shell"}
      [] msg = "[errno 2] no such file or directory"
            -> {"no such file or directory"}
      [] msg = "no shell available in this container" -> {"no shell"}
      [] msg = "container not found" -> {"container not found"}
      [] msg = "container is not running" -> {"is not running", "not running"}
      [] msg = "failed to connect to container: could not create exec instance - no shell available"
            -> {"no shell"}
      [] OTHER -> {}

(* the except clause of open_docker_shell: the message of the exception it *)
(* raises for the exception e it caught                                    *)
Reworded(e) ==
    IF "no such file or directory" \in Phrases(e)
    THEN "no shell available in this container"
    ELSE IF "container not found" \in Phrases(e)
    THEN "container not found"
    ELSE IF "is not running" \in Phrases(e)
    THEN "container is not running"
    ELSE "failed to connect to container: " \o e

(* action_open_shell and on_input_submitted, "except Exception": the       *)
(* session is marked as having no shell                                    *)
MarksUnavailable(msg) ==
    "no shell" \in Phrases(msg) \/ "not running" \in Phrases(msg)

(* open_docker_shell: create_exec_instance, then the unix socket and the   *)
(* start request; every exception is caught and raised again reworded      *)
OpenOutcome(cause) ==
    LET answers == AnswersFor(cause)
        r == TryShells(answers, 1, <<>>)
        e == IF r.pc = "raised" THEN r.error ELSE SocketError(cause)
    IN  [op |-> "open_docker_shell", cause |-> cause,
         answers |-> answers, tried |-> r.tried,
         pc |-> IF e = "" THEN "returned" ELSE "raised",
         id |-> r.id,
         error |-> IF e = "" THEN "" ELSE Reworded(e)]

open_docker_shell(cause) ==
    /\ exec_call' = OpenOutcome(cause)
    /\ UNCHANGED nonxvars

(* "return start_resp.status_code == 200" *)
Started(code) == code = HttpOk

(* check_shell_availability of container_exec.py: the container is         *)
(* inspected, a test exec is created and started; every exception is       *)
(* caught and printed, and the function returns False                      *)
ProbeResult(inspect, running, create, start) ==
    IF inspect = NoResponse THEN FALSE
    ELSE IF inspect # HttpOk THEN FALSE
    ELSE IF ~running THEN FALSE
    ELSE IF create = NoResponse THEN FALSE
    ELSE IF create = HttpCreated
    THEN IF start = NoResponse THEN FALSE ELSE Started(start)
    ELSE FALSE

exec_check_shell_availability(inspect, running, create, start) ==
    /\ exec_call' = [op |-> "check_shell_availability", inspect |-> inspect,
                     running |-> running, create |-> create, start |-> start,
                     pc |-> "returned",
                     result |-> ProbeResult(inspect, running, create, start)]
    /\ UNCHANGED nonxvars

NextExec ==
    \/ \E answers \in [1..NumCandidates -> ExecResponses] :
          create_exec_instance(answers)
    \/ \E cause \in Causes : open_docker_shell(cause)
    \/ \E inspect, create, start \in ProbeResponses, running \in BOOLEAN :
          exec_check_shell_availability(inspect, running, create, start)

InitExecSession ==
    /\ runtime = [c \in Ids |-> Gone]
    /\ InitManager
    /\ InitLogs
    /\ InitShell
    /\ InitClient
    /\ InitPoll
    /\ InitExec
    /\ InitView
    /\ InitSent
    /\ InitProjectCall
    /\ InitTab
    /\ InitSplit

SpecExec == InitExecSession /\ [][NextExec]_vars

(* C23: create_exec_instance posts the candidates /bin/sh -i, /bin/bash -i,*)
(* sh -i, /bin/sh -c exec /bin/sh, sh in this order; it returns the exec   *)
(* id of the first candidate answered 200 or 201 and posts none after it;  *)
(* a candidate that is rejected or whose request raises is skipped; the    *)
(* function raises only when all five have been refused                    *)
C23_FirstAcceptedCandidate ==
    exec_call.op = "create_exec_instance" =>
        LET n == Len(exec_call.tried)
            refused(k) == exec_call.answers[k] \notin {200, 201}
        IN  /\ n \in 1..5
            /\ exec_call.tried =
                  SubSeq(<<"/bin/sh -i", "/bin/bash -i", "sh -i",
                           "/bin/sh -c exec /bin/sh", "sh">>, 1, n)
            /\ exec_call.pc \in {"returned", "raised"}
            /\ exec_call.pc = "returned" =>
                  /\ exec_call.id = n
                  /\ ~refused(n)
                  /\ \A k \in 1..(n - 1) : refused(k)
            /\ exec_call.pc = "raised" =>
                  /\ n = 5
                  /\ \A k \in 1..5 : refused(k)

(* the third candidate is accepted after a request that raised and one     *)
(* that was rejected                                                       *)
C23_Witness ==
    /\ exec_call.op = "create_exec_instance"
    /\ exec_call.pc = "returned"
    /\ exec_call.id = 3
    /\ exec_call.answers[1] = NoResponse
    /\ exec_call.answers[2] = Conflict
    /\ exec_call.answers[3] = HttpOk
    /\ Len(exec_call.tried) = 3

(* the outcome the caller is to be told for a cause of failure *)
OutcomeOf(cause) ==
    CASE cause = "no shell" -> "NoShellAvailable"
      [] cause = "not running" -> "ContainerNotRunning"
      [] cause \in {"socket gone", "socket refused"} -> "ConnectionFailed"
      [] OTHER -> "-"

(* C24: open_docker_shell fails with distinguishable outcomes: the message *)
(* raised for no shell, for a container that is not running and for a      *)
(* failed connection differ pairwise; a container that is not running is   *)
(* not reported as having no shell, and a socket failure is reported       *)
(* neither as no shell nor as not running                                  *)
C24_DistinctErrors ==
    exec_call.op = "open_docker_shell" /\ OutcomeOf(exec_call.cause) # "-" =>
        /\ exec_call.pc = "raised"
        /\ \A other \in Causes :
              OutcomeOf(other) \notin {"-", OutcomeOf(exec_call.cause)} =>
                  OpenOutcome(other).error # exec_call.error
        /\ exec_call.cause = "not running" =>
              "no shell" \notin Phrases(exec_call.error)
        /\ OutcomeOf(exec_call.cause) = "ConnectionFailed" =>
              ~MarksUnavailable(exec_call.error)

(* a request of the probe that was made and got no answer *)
TransportFailed(call) ==
    \/ call.inspect = NoResponse
    \/ call.inspect = HttpOk /\ call.running /\ call.create = NoResponse
    \/ call.inspect = HttpOk /\ call.running /\ call.create = HttpCreated
          /\ call.start = NoResponse

----------------------------------------------------------------------------
(* src/container_action_menu.py: the log view of ContainerActionScreen,    *)
(* on_input_changed, refresh_logs and colorize_log.  A text is a sequence  *)
(* of characters.  Line n of the container's log has the text LineText(n): *)
(* the log repeats a few texts that differ in case, in the severity words  *)
(* they hold and in brackets (the timestamps of the lines are left out).   *)

RenderTail == 200

MaxRenderGrowth == 2

LogTexts ==
    << <<"I", "n", "f", "o", " ", "e", "r", "r", "o", "r">>,
       <<"d", "e", "b", "u", "g", " ", "W", "a", "r", "n">>,
       <<"f", "a", "t", "a", "l">>,
       <<"I", "N", "F", "O", " ", "u", "p">>,
       <<"D", "e", "b", "u", "g", " ", "x">>,
       <<"[", "o", "k", "]", " ", "d", "o", "n", "e">>,
       <<"w", "a", "r", "n", "i", "n", "g">> >>

(* the line of the except clause of stream_logs, "[red]Error streaming     *)
(* logs: {e}[/red]", without the text of e                                 *)
ErrorText ==
    <<"[", "r", "e", "d", "]", "E", "r", "r", "o", "r", "[", "/", "r", "e", "d", "]">>

(* the line of container_logs.stream_logs for a response other than 200,   *)
(* "[ERROR] HTTP {status} while fetching logs.", cut after HTTP            *)
HttpErrorText ==
    <<"[", "E", "R", "R", "O", "R", "]", " ", "H", "T", "T", "P">>

LineText(n) ==
    IF n = ErrorLine THEN ErrorText
    ELSE IF n = HttpErrorLine THEN HttpErrorText
    ELSE LogTexts[((n - 1) % Len(LogTexts)) + 1]

UpperCase == <<"A", "B", "C", "D", "E", "F", "G", "H", "I", "J", "K", "L", "M", "N", "O", "P", "Q", "R", "S", "T", "U", "V", "W", "X", "Y", "Z">>

LowerCase == <<"a", "b", "c", "d", "e", "f", "g", "h", "i", "j", "k", "l", "m", "n", "o", "p", "q", "r", "s", "t", "u", "v", "w", "x", "y", "z">>

(* str.lower() and str.upper(), character by character *)
ToLower ==
    [c \in {UpperCase[i] : i \in 1..Len(UpperCase)} |->
        LowerCase[CHOOSE i \in 1..Len(UpperCase) : UpperCase[i] = c]]

ToUpper ==
    [c \in {LowerCase[i] : i \in 1..Len(LowerCase)} |->
        UpperCase[CHOOSE i \in 1..Len(LowerCase) : LowerCase[i] = c]]

LowerChar(c) == IF c \in DOMAIN ToLower THEN ToLower[c] ELSE c

UpperChar(c) == IF c \in DOMAIN ToUpper THEN ToUpper[c] ELSE c

LowerText(s) == [i \in 1..Len(s) |-> LowerChar(s[i])]

UpperText(s) == [i \in 1..Len(s) |-> UpperChar(s[i])]

(* "sub in s" of Python *)
Contains(sub, s) ==
    \E k \in 0..(Len(s) - Len(sub)) : SubSeq(s, k + 1, k + Len(sub)) = sub

(* re.sub(r"([\[\]])", r"\\\1", line): a backslash before every bracket *)
RECURSIVE Escape(_)
Escape(s) ==
    IF s = <<>> THEN <<>>
    ELSE IF Head(s) \in {"[", "]"}
    THEN <<"\\", Head(s)>> \o Escape(Tail(s))
    ELSE <<Head(s)>> \o Escape(Tail(s))

(* f"[{colour}]{escaped_line}[/{colour}]" *)
Tagged(colour, escaped) ==
    <<"[">> \o colour \o <<"]">> \o escaped \o <<"[", "/">> \o colour \o <<"]">>

Red == <<"r", "e", "d">>

Yellow == <<"y", "e", "l", "l", "o", "w">>

Green == <<"g", "r", "e", "e", "n">>

Blue == <<"b", "l", "u", "e">>

colorize_info_first(line) ==
    LET escaped == Escape(line)
        upper == UpperText(escaped)
    IN  IF Contains(<<"I", "N", "F", "O">>, upper)
        THEN Tagged(Green, escaped)
        ELSE IF Contains(<<"E", "R", "R", "O", "R">>, upper)
                \/ Contains(<<"F", "A", "T", "A", "L">>, upper)
        THEN Tagged(Red, escaped)
        ELSE IF Contains(<<"W", "A", "R", "N">>, upper)
        THEN Tagged(Yellow, escaped)
        ELSE IF Contains(<<"D", "E", "B", "U", "G">>, upper)
        THEN Tagged(Blue, escaped)
        ELSE escaped

(* colorize_log *)
colorize_log(line) ==
    LET escaped == Escape(line)
        upper == UpperText(escaped)
    IN  IF Contains(<<"E", "R", "R", "O", "R">>, upper)
           \/ Contains(<<"F", "A", "T", "A", "L">>, upper)
        THEN Tagged(Red, escaped)
        ELSE IF Contains(<<"W", "A", "R", "N">>, upper)
        THEN Tagged(Yellow, escaped)
        ELSE IF Contains(<<"I", "N", "F", "O">>, upper)
        THEN Tagged(Green, escaped)
        ELSE IF Contains(<<"D", "E", "B", "U", "G">>, upper)
        THEN Tagged(Blue, escaped)
        ELSE escaped

MatchesExactCase(filter, line) == filter = <<>> \/ Contains(filter, line)

(* "not self.filter_text or self.filter_text in line.lower()" *)
LineMatches(filter, line) == filter = <<>> \/ Contains(filter, LowerText(line))

(* self.log_lines[-200:] *)
LastLines(lines) ==
    IF Len(lines) > RenderTail
    THEN SubSeq(lines, Len(lines) - RenderTail + 1, Len(lines))
    ELSE lines

(* the list "filtered" of refresh_logs, which log_output.update shows *)
Filtered(lines, filter) ==
    LET Test(n) == LineMatches(filter, LineText(n))
        kept == SelectSeq(LastLines(lines), Test)
    IN  [j \in 1..Len(kept) |-> colorize_log(LineText(kept[j]))]

(* the rows of the log pane, and the largest scroll position of a text of *)
(* v rows in it                                                           *)
ViewHeight == 3

MaxScrollY(v) == IF v > ViewHeight THEN v - ViewHeight ELSE 0

(* refresh_logs: at_bottom, computed before the update *)
AtBottom(scroll_y, v) == scroll_y + ViewHeight >= v - 1

(* refresh_logs: the scroll position after a text of v rows was replaced  *)
(* by one of v2 rows: scroll_end if at_bottom, else the position is left  *)
(* alone and the pane keeps it within the new text                        *)
ScrollAfter(scroll_y, v, v2) ==
    [scroll_y |-> IF AtBottom(scroll_y, v) THEN MaxScrollY(v2)
                  ELSE IF scroll_y > MaxScrollY(v2) THEN MaxScrollY(v2)
                  ELSE scroll_y,
     at_bottom |-> AtBottom(scroll_y, v),
     before |-> scroll_y]

(* refresh_logs, called by the timer of on_mount every 0.5 s *)
refresh_logs ==
    /\ log_pump # "unstarted"
    /\ log_output' = Filtered(log_lines, filter_text)
    /\ render_tick' = ~render_tick
    /\ log_scroll' = ScrollAfter(log_scroll.scroll_y, Len(log_output),
                                 Len(log_output'))
    /\ UNCHANGED <<filter_value, filter_text>>
    /\ UNCHANGED nonfvars

(* what the user types into the log filter *)
FilterValues ==
    { <<>>, <<"E", "R", "R">>, <<"i", "n", "f", "o">>, <<"W", "a", "r", "n">>, <<"z", "z">> }

(* on_input_changed: a change of the log filter sets filter_text and       *)
(* calls refresh_logs; a change of the shell input does nothing            *)
on_input_changed(inp, value) ==
    /\ log_pump # "unstarted"
    /\ IF inp = "log-filter"
       THEN /\ filter_value' = value
            /\ filter_text' = LowerText(value)
            /\ log_output' = Filtered(log_lines, filter_text')
            /\ render_tick' = ~render_tick
            /\ log_scroll' = ScrollAfter(log_scroll.scroll_y, Len(log_output),
                                         Len(log_output'))
       ELSE UNCHANGED fvars
    /\ UNCHANGED nonfvars

(* the sizes the log has when the view is looked at, and the buffer        *)
(* stream_logs holds after e lines                                         *)
RenderStarts == {0, RenderTail - 1, LogCap}

BufferAfter(e) ==
    LET n == IF e > LogCap THEN LogCap ELSE e
    IN  [i \in 1..n |-> e - n + i]

(* the log grows by up to MaxRenderGrowth lines while looked at *)
LogGrows ==
    /\ \E s \in RenderStarts :
          log_next - 1 \in s..(s + MaxRenderGrowth - 1)
    /\ StreamYields(log_next)

NextRender ==
    \/ LogGrows
    \/ StreamLine
    \/ refresh_logs
    \/ \E inp \in Inputs, value \in FilterValues : on_input_changed(inp, value)

InitRenderSession ==
    /\ runtime = [c \in Ids |-> Gone]
    /\ InitManager
    /\ \E e \in RenderStarts :
          /\ log_lines = BufferAfter(e)
          /\ log_next = e + 1
    /\ keep_streaming = TRUE
    /\ log_pump = "streaming"
    /\ InitShell
    /\ InitClient
    /\ InitPoll
    /\ InitExec
    /\ InitView
    /\ InitSent
    /\ InitProjectCall
    /\ InitTab
    /\ InitSplit

SpecRender == InitRenderSession /\ [][NextRender]_vars

(* a step that renders the log: refresh_logs has run *)
Rendered == render_tick' # render_tick

(* the buffer positions refresh_logs is to show for the typed filter       *)
(* value: those of the last 200 whose text holds the value, letter case    *)
(* aside                                                                   *)
HoldsFolded(text, value) ==
    \E k \in 0..(Len(text) - Len(value)) :
        \A m \in 1..Len(value) : LowerChar(text[k + m]) = LowerChar(value[m])

Shows(lines, value) ==
    { i \in 1..Len(lines) :
        /\ i > Len(lines) - 200
        /\ \E text \in {LineText(lines[i])} : HoldsFolded(text, value) }

ShownTexts == {LineText(n) : n \in HttpErrorLine..Len(LogTexts)}

(* the text holds the severity word, letter case aside *)
Says(text, word) == HoldsFolded(text, word)

(* C27: colorize_log gives a line exactly one colour, that of the first    *)
(* of ERROR or FATAL (red), WARN (yellow), INFO (green), DEBUG (blue) the  *)
(* line holds in any letter case, and no tag when it holds none; a line    *)
(* with ERROR and INFO is red, a line with WARN and DEBUG is yellow        *)
C27_FirstSeverity ==
    \A j \in 1..Len(log_output) :
        \E text \in ShownTexts :
            \E body \in {Escape(text)} :
                LET row == log_output[j]
                    error == Says(text, <<"E", "R", "R", "O", "R">>)
                                \/ Says(text, <<"F", "A", "T", "A", "L">>)
                    warn == Says(text, <<"W", "A", "R", "N">>)
                    info == Says(text, <<"I", "N", "F", "O">>)
                    debug == Says(text, <<"D", "E", "B", "U", "G">>)
                IN  /\ row \in {body} \cup
                          {Tagged(c, body) : c \in {Red, Yellow, Green, Blue}}
                    /\ row = Tagged(Red, body) <=> error
                    /\ row = Tagged(Yellow, body) <=> ~error /\ warn
                    /\ row = Tagged(Green, body) <=> ~error /\ ~warn /\ info
                    /\ row = Tagged(Blue, body) <=>
                          ~error /\ ~warn /\ ~info /\ debug
                    /\ row = body <=> ~error /\ ~warn /\ ~info /\ ~debug

(* the view shows a line with info and error in red, a line with debug    *)
(* and Warn in yellow, and a line without a severity word untagged         *)
C27_Witness ==
    /\ \E j \in 1..Len(log_output) :
          log_output[j] = Tagged(Red, <<"I", "n", "f", "o", " ", "e", "r", "r", "o", "r">>)
    /\ \E j \in 1..Len(log_output) :
          log_output[j] = Tagged(Yellow, <<"d", "e", "b", "u", "g", " ", "W", "a", "r", "n">>)
    /\ \E j \in 1..Len(log_output) :
          log_output[j] = <<"\\", "[", "o", "k", "\\", "]", " ", "d", "o", "n", "e">>

----------------------------------------------------------------------------
(* src/container_action_menu.py: read_shell_output on a buffer that is     *)
(* close to its cap.  The session is connected and the command "ls" has    *)
(* produced so much output that shell_lines holds CapStarts entries; the   *)
(* shell of the container sends more while the buffer is between there and *)
(* MaxOver entries above the cap.                                          *)

MaxOver == 3

CapStarts == {ShellCap - 1, ShellCap}

(* shell_lines after the command "ls" and n - 2 lines of its output *)
OutputOf(n) ==
    <<"ls">> \o [i \in 1..(n - 2) |-> "out"] \o <<PROMPT>>

(* what the shell sends in one chunk: a line, an empty line, a redraw of   *)
(* the screen                                                              *)
Chunks ==
    { <<Line(1, "out")>>, <<Line(1, "")>>, <<Esc(1), Line(1, "scr")>> }

(* the shell of the container writes a chunk to the exec connection *)
ShellSends(c, items) ==
    /\ conns[c].state = "open"
    /\ conns[c].out = <<>>
    /\ Len(shell_lines) \in (ShellCap - 1)..(ShellCap + MaxOver - 1)
    /\ ShellCommit([ShellState EXCEPT !.conns[c].out = items])
    /\ UNCHANGED <<shell_checked, active_tab, handler, submitted>>
    /\ UNCHANGED nonsvars

NextShellCap ==
    \/ \E c \in 1..MaxConns, items \in Chunks : ShellSends(c, items)
    \/ \E p \in 1..MaxPumps : PumpRuns(p)
    \/ \E c \in 1..MaxConns : ConnectionDrops(c)

(* a connected session after the command "ls", with the buffer lines *)
InitConnected(lines) ==
    /\ runtime = [c \in Ids |-> Gone]
    /\ InitManager
    /\ InitLogs
    /\ shell_available = TRUE
    /\ shell_checked = TRUE
    /\ active_tab = "Terminal"
    /\ shell_reader = 1
    /\ shell_writer = 1
    /\ shell_task = 1
    /\ shell_lines = lines
    /\ command_history = <<"ls">>
    /\ conns = [c \in 1..MaxConns |->
                  IF c = 1 THEN [UnusedConn EXCEPT !.state = "open",
                                                   !.written = <<"clear", "ls">>]
                  ELSE UnusedConn]
    /\ pumps = [p \in 1..MaxPumps |->
                  IF p = 1 THEN [UnusedPump EXCEPT !.pc = "waiting", !.conn = 1]
                  ELSE UnusedPump]
    /\ opens = [o \in OpenSlots |-> "idle"]
    /\ handler = IdleHandler
    /\ submitted = 1
    /\ sops = ShellOpsNone
    /\ unmounted = FALSE
    /\ input_disabled = FALSE
    /\ history_index = -1
    /\ input_value = ""
    /\ InitClient
    /\ InitPoll
    /\ InitExec
    /\ InitView
    /\ InitSent
    /\ InitProjectCall
    /\ InitTab
    /\ InitSplit

InitShellCapSession == \E n \in CapStarts : InitConnected(OutputOf(n))

SpecShellCap == InitShellCapSession /\ [][NextShellCap]_vars

(* C28: shell_lines never holds more than 1000 entries after pump output   *)
(* of any kind, and a buffer that was cut holds the "older output          *)
(* truncated" marker                                                       *)
C28_ShellCap ==
    Len(shell_lines) <= 1000

----------------------------------------------------------------------------
(* src/container_action_menu.py: the order of the lines in shell_lines.    *)
(* The shell of the container sends the lines SentTexts one after the      *)
(* other, each in a chunk of its own; the user submits "ls" or clears the  *)
(* buffer in between.                                                      *)

MaxSent == 3

SentTexts == <<"1", "2", "3", "4", "5">>

SeqNo(text) == CHOOSE n \in 1..Len(SentTexts) : SentTexts[n] = text

(* the shell of the container writes its next line to the exec connection *)
ShellSendsLine(c) ==
    /\ conns[c].state = "open"
    /\ shell_sent < MaxSent
    /\ ShellCommit([ShellState EXCEPT
          !.conns[c].out = Append(@, Line(submitted, SentTexts[shell_sent + 1]))])
    /\ shell_sent' = shell_sent + 1
    /\ UNCHANGED <<shell_checked, active_tab, handler, submitted>>
    /\ UNCHANGED <<rvars, lvars, cvars, pvars, xvars, fvars, jvars, wvars, bvars>>

NextOrder ==
    \/ \E c \in 1..MaxConns : ShellSendsLine(c)
    \/ \E p \in 1..MaxPumps : PumpRuns(p)
    \/ action_clear_shell
    \/ \E clr \in {"esc", "none"} : on_input_submitted("shell-input", "ls", clr)

InitOrderSession == InitConnected(OutputOf(2))

SpecOrder == InitOrderSession /\ [][NextOrder]_vars

(* C29: the lines the pump has put in shell_lines are there in the order   *)
(* in which they were received, whatever output, command submissions and   *)
(* clear-shell actions came before                                         *)
C29_ReceivedOrder ==
    \A i, j \in 1..Len(shell_lines) :
        /\ i < j
        /\ \E n \in 1..Len(SentTexts) : SentTexts[n] = shell_lines[i]
        /\ \E n \in 1..Len(SentTexts) : SentTexts[n] = shell_lines[j]
        => SeqNo(shell_lines[i]) < SeqNo(shell_lines[j])

----------------------------------------------------------------------------
(* src/container_action_menu.py: the thread of stream_logs and the timer   *)
(* of refresh_logs.  The thread runs beside the event loop and no lock is  *)
(* held around its loop body, so the event loop can run refresh_logs       *)
(* between any two statements of the body: the append and the eviction     *)
(* are steps of their own here.                                            *)

(* "self.log_lines.append(line)" *)
StreamAppends ==
    /\ log_pump = "got_line"
    /\ IF ~keep_streaming
       THEN /\ log_pump' = "ended"
            /\ UNCHANGED log_lines
       ELSE /\ log_lines' = Append(log_lines, log_next)
            /\ log_pump' = "appended"
    /\ UNCHANGED <<keep_streaming, log_next>>
    /\ UNCHANGED nonlvars

(* "if len(self.log_lines) > 1000: self.log_lines.pop(0)" *)
StreamEvicts ==
    /\ log_pump = "appended"
    /\ log_lines' = IF Len(log_lines) > LogCap THEN Tail(log_lines)
                    ELSE log_lines
    /\ log_next' = log_next + 1
    /\ log_pump' = "streaming"
    /\ UNCHANGED keep_streaming
    /\ UNCHANGED nonlvars

NextRace ==
    \/ LogGrows
    \/ StreamAppends
    \/ StreamEvicts
    \/ refresh_logs
    \/ LogOnUnmount

SpecRace == InitRenderSession /\ [][NextRace]_vars

(* C30: refresh_logs never reads log_lines between the append and the      *)
(* eviction of the thread: the buffer it takes its snapshot of holds at    *)
(* most 1000 lines                                                         *)
C30_AtomicAppend ==
    [][Rendered => Len(log_lines) <= 1000]_vars

----------------------------------------------------------------------------
(* src/service.py: _get_project_containers and stop_project.  The function *)
(* is synchronous; the runtime and the daemon can change between two of    *)
(* its requests, so each request is a step.                                *)

(* the projects a call can name: the compose project of the containers     *)
(* and the group of the containers without a compose label                 *)
Projects == {"P", Uncategorized}

(* _get_project_containers: the ids of the containers whose compose label  *)
(* is the project; the empty list when the request raises or is not        *)
(* answered with 200, and for containers without the label                 *)
RECURSIVE ProjectContainers(_, _, _, _)
ProjectContainers(rt, fault, project, k) ==
    IF fault # "ok" \/ k > Len(IdOrder) THEN <<>>
    ELSE LET c == IdOrder[k]
             rest == ProjectContainers(rt, fault, project, k + 1)
         IN  IF /\ rt[c].present
                /\ rt[c].project # Uncategorized
                /\ rt[c].project = project
             THEN <<c>> \o rest
             ELSE rest

(* stop_project up to its loop *)
stop_project(project) ==
    /\ project_call.pc # "stopping"
    /\ LET containers == ProjectContainers(runtime, daemon, project, 1)
       IN  project_call' =
             IF containers = <<>>
             THEN [IdleProjectCall EXCEPT !.pc = "returned", !.project = project]
             ELSE [IdleProjectCall EXCEPT !.pc = "stopping", !.project = project,
                                          !.listed = containers,
                                          !.todo = containers]
    /\ UNCHANGED nonjvars

(* one pass of the loop of stop_project: the stop request of the next      *)
(* container; the function returns after the last one, and a request that  *)
(* raises ends it                                                          *)
StopNext ==
    /\ project_call.pc = "stopping"
    /\ LET cid == Head(project_call.todo)
           code == StopResponse(runtime, daemon, cid)
           success == project_call.success /\ StopAccepted(code)
           rest == Tail(project_call.todo)
           done == Append(project_call.done, [cid |-> cid, code |-> code])
       IN  /\ runtime' = AfterStop(runtime, code, cid)
           /\ project_call' =
                IF code = NoResponse
                THEN [project_call EXCEPT !.pc = "raised", !.done = done]
                ELSE [project_call EXCEPT
                        !.pc = IF rest = <<>> THEN "returned" ELSE "stopping",
                        !.todo = rest, !.done = done, !.success = success,
                        !.result = (rest = <<>> /\ success)]
    /\ UNCHANGED <<daemon, changes, refreshing, last_containers, cards,
                   uncategorized_cards, container_list, uncategorized_list,
                   project_tree, current_project, passes, ops>>
    /\ UNCHANGED <<lvars, svars, cvars, pvars, xvars, fvars, ovars, wvars, bvars>>

NextProject ==
    \/ \E c \in Ids : \E r \in Variants(c) : RuntimeChange(c, r)
    \/ \E d \in Faults : DaemonChange(d)
    \/ \E project \in Projects : stop_project(project)
    \/ StopNext

SpecProject == InitClientSession /\ [][NextProject]_vars

(* C31: stop_project returns True exactly when the project has a container *)
(* and every stop request was answered 204 or 304; it returns False when   *)
(* no container carries the label or a stop fails, and does not end in     *)
(* any other way                                                           *)
C31_StopProject ==
    LET call == project_call
        failed == \E i \in 1..Len(call.done) : call.done[i].code \notin {204, 304}
    IN  /\ call.pc # "raised"
        /\ call.pc = "returned" =>
              (call.result <=>
                  /\ call.listed # <<>>
                  /\ Len(call.done) = Len(call.listed)
                  /\ ~failed)

(***************************************************************************)
(* Focus and selection in the container list: sync_card_list               *)
(* (managers/docker_manager.py) and ContainersTab (tabs/container_tab.py). *)
(* In containers_tab, children is the mount order of the cards, hidden the *)
(* cards with display "none", focused the focused card's id or "search",   *)
(* "tab", "none"; opened is the container of the last opened action        *)
(* screen, op the last handler and before the focus before the last sync.  *)
(***************************************************************************)
CardOrder == <<"A", "B", "C">>

CardIds == {CardOrder[i] : i \in 1..Len(CardOrder)}

(* the listing of a poll: the containers present, in the daemon's order *)
Listing(S) == SelectSeq(CardOrder, LAMBDA c : c \in S)

(* ContainerCard.status_key of the card of a container *)
StatusKey(c) == IF c = "B" THEN "exited" ELSE "running"

(* ContainersTab._matches: the query occurs in the name, image or status *)
Matches(c, query) == query = "web" => c \in {"A", "C"}

(* ContainersTab._get_visible_cards *)
VisibleCards(t) == SelectSeq(t.children, LAMBDA c : c \notin t.hidden)

(* ContainersTab._get_selected_card *)
SelectedCard(t) ==
    LET shown == VisibleCards(t)
    IN  IF shown = <<>> THEN None
        ELSE shown[(t.selected_index % Len(shown)) + 1]

(* the widgets the screen may focus when the focused card is removed *)
FocusAfterRemoval(kept) == {"none", "tab"} \cup {kept[i] : i \in 1..Len(kept)}

(* DockerManager.sync_card_list for the listing data of one poll *)
sync_card_list(data) ==
    LET focused_id == IF containers_tab.focused \in CardIds THEN containers_tab.focused ELSE None
        new_ids == {data[i] : i \in 1..Len(data)}
        old_ids == {containers_tab.children[i] : i \in 1..Len(containers_tab.children)}
        kept == SelectSeq(containers_tab.children, LAMBDA c : c \in new_ids)
        added == SelectSeq(data, LAMBDA c : c \notin old_ids)
        children == kept \o added
    IN  \E left \in IF containers_tab.focused \in old_ids \ new_ids
                    THEN FocusAfterRemoval(kept) ELSE {containers_tab.focused} :
            /\ containers_tab' = [containers_tab EXCEPT
                   !.children = children,
                   !.hidden = containers_tab.hidden \cap new_ids,
                   !.focused = IF focused_id # None
                               THEN IF focused_id \in new_ids
                                    THEN focused_id ELSE left
                               ELSE IF children # <<>>
                                    THEN children[1] ELSE left,
                   !.op = "sync",
                   !.before = containers_tab.focused]
            /\ UNCHANGED nonwvars

(* ContainersTab.action_focus_next (step 1) and action_focus_previous (-1) *)
action_focus(step) ==
    LET shown == VisibleCards(containers_tab)
        index == (containers_tab.selected_index + step) % Len(shown)
    IN  /\ shown # <<>>
        /\ containers_tab' = [containers_tab EXCEPT !.selected_index = index,
                              !.focused = shown[index + 1],
                              !.op = "move"]
        /\ UNCHANGED nonwvars

(* ContainersTab.action_open_menu *)
action_open_menu ==
    /\ SelectedCard(containers_tab) # None
    /\ containers_tab' = [containers_tab EXCEPT !.opened = SelectedCard(containers_tab), !.op = "open_menu"]
    /\ UNCHANGED nonwvars

(* ContainersTab.on_select_changed of the filter dropdown *)
on_select_changed(selected) ==
    LET hidden == IF selected = "all" THEN {}
                  ELSE {c \in CardIds : StatusKey(c) # selected}
        visible_cards == SelectSeq(containers_tab.children, LAMBDA c : c \notin hidden)
    IN  /\ containers_tab' = [containers_tab EXCEPT
               !.hidden = hidden,
               !.focused = IF visible_cards # <<>>
                           THEN visible_cards[1] ELSE "tab",
               !.selected_index = IF visible_cards # <<>>
                                  THEN 0 ELSE containers_tab.selected_index,
               !.op = "filter"]
        /\ UNCHANGED nonwvars

(* ContainersTab.action_focus_search *)
action_focus_search ==
    /\ containers_tab' = [containers_tab EXCEPT !.search_active = TRUE, !.focused = "search",
                          !.op = "search"]
    /\ UNCHANGED nonwvars

(* ContainersTab.on_input_changed of the search input *)
search_changed(query) ==
    LET hidden == {c \in CardIds : ~Matches(c, query)}
        visible == SelectSeq(containers_tab.children, LAMBDA c : c \notin hidden)
        inside == \E i \in 1..Len(visible) : visible[i] = containers_tab.focused
    IN  /\ containers_tab.search_active
        /\ containers_tab' = [containers_tab EXCEPT
               !.hidden = hidden,
               !.selected_index =
                   IF visible = <<>> THEN 0
                   ELSE IF containers_tab.focused = "search" THEN containers_tab.selected_index
                   ELSE IF ~inside THEN 0 ELSE containers_tab.selected_index,
               !.focused =
                   IF visible = <<>> \/ containers_tab.focused = "search" \/ inside
                   THEN containers_tab.focused ELSE visible[1],
               !.op = "search"]
        /\ UNCHANGED nonwvars

(* ContainersTab.action_clear_search *)
action_clear_search ==
    /\ containers_tab.search_active
    /\ containers_tab' = [containers_tab EXCEPT
           !.search_active = FALSE,
           !.hidden = {},
           !.focused = IF containers_tab.children # <<>>
                       THEN containers_tab.children[1] ELSE containers_tab.focused,
           !.selected_index = IF containers_tab.children # <<>>
                              THEN 0 ELSE containers_tab.selected_index,
           !.op = "clear"]
    /\ UNCHANGED nonwvars

NextFocus ==
    \/ \E S \in SUBSET CardIds : sync_card_list(Listing(S))
    \/ \E step \in {1, -1} : action_focus(step)
    \/ action_open_menu
    \/ \E selected \in {"all", "running", "exited"} : on_select_changed(selected)
    \/ action_focus_search
    \/ \E query \in {"", "web"} : search_changed(query)
    \/ action_clear_search

SpecFocus == InitClientSession /\ [][NextFocus]_vars

ScrollTargets(v) ==
    {y \in {0, MaxScrollY(v) - 2, MaxScrollY(v) - 1, MaxScrollY(v)} : y >= 0}

(* the user scrolls the log pane (VerticalScroll #log-scroll) *)
UserScrolls(y) ==
    /\ log_pump # "unstarted"
    /\ y # log_scroll.scroll_y
    /\ log_scroll' = [log_scroll EXCEPT !.scroll_y = y]
    /\ UNCHANGED <<filter_value, filter_text, log_output, render_tick>>
    /\ UNCHANGED nonfvars

NextScroll ==
    \/ LogGrows
    \/ StreamLine
    \/ refresh_logs
    \/ \E inp \in Inputs, value \in FilterValues : on_input_changed(inp, value)
    \/ \E y \in ScrollTargets(Len(log_output)) : UserScrolls(y)

SpecScroll == InitRenderSession /\ [][NextScroll]_vars

(* C34: a render scrolls to the newest line only if the view was at the   *)
(* bottom just before it; if the user had scrolled back, the render       *)
(* leaves the scroll position unchanged                                   *)
C34_ScrollKept ==
    [][Rendered =>
          IF log_scroll.scroll_y >= MaxScrollY(Len(log_output))
          THEN log_scroll'.scroll_y = MaxScrollY(Len(log_output'))
          ELSE log_scroll'.scroll_y = log_scroll.scroll_y]_vars

(* the rule as the code has it: a render    scrolls to the newest line if the     *)
(* last row was at most one row below the pane; otherwise it leaves the   *)
(* position alone, which stays within the new text                        *)
ScrollKeptWithinOneRow ==
    [][Rendered =>
          IF log_scroll.scroll_y + 1 >= MaxScrollY(Len(log_output))
          THEN log_scroll'.scroll_y = MaxScrollY(Len(log_output'))
          ELSE /\ log_scroll'.scroll_y <= log_scroll.scroll_y
               /\ \/ log_scroll'.scroll_y = log_scroll.scroll_y
                  \/ log_scroll'.scroll_y = MaxScrollY(Len(log_output'))]_vars

(* a render has left a scrolled-back view where it was while the newest   *)
(* line is further down                                                   *)
ScrolledBackKept ==
    /\ ~log_scroll.at_bottom
    /\ log_scroll.scroll_y = log_scroll.before
    /\ log_scroll.scroll_y + 1 < MaxScrollY(Len(log_output))

(***************************************************************************)
(* The line split of read_shell_output. A text is a sequence of            *)
(* characters; CR and LF stand for "\r" and "\n", "a" for any other one.   *)
(***************************************************************************)
CR == "\r"

LF == "\n"

StreamChars == {"a", CR, LF}

MaxStream == 4

(* the index of the first ch in buf, of the first "\r\n" in buf; 0 if none *)
Find(buf, ch) ==
    IF \E i \in 1..Len(buf) : buf[i] = ch
    THEN CHOOSE i \in 1..Len(buf) :
            buf[i] = ch /\ \A k \in 1..(i - 1) : buf[k] # ch
    ELSE 0

FindCRLF(buf) ==
    IF \E i \in 1..(Len(buf) - 1) : buf[i] = CR /\ buf[i + 1] = LF
    THEN CHOOSE i \in 1..(Len(buf) - 1) :
            /\ buf[i] = CR /\ buf[i + 1] = LF
            /\ \A k \in 1..(i - 1) : ~(buf[k] = CR /\ buf[k + 1] = LF)
    ELSE 0

(* buffer.split(sep, 1) for a separator of n characters found at index i *)
SplitAt(buf, i, n) ==
    [line |-> SubSeq(buf, 1, i - 1), buffer |-> SubSeq(buf, i + n, Len(buf))]

(* read_shell_output: 'while "\n" in buffer or "\r" in buffer', which tries *)
(* "\r\n", then "\n", then "\r"                                             *)
RECURSIVE ProcessBuffer(_, _)
ProcessBuffer(buf, lines) ==
    IF FindCRLF(buf) > 0
    THEN LET s == SplitAt(buf, FindCRLF(buf), 2)
         IN  ProcessBuffer(s.buffer, Append(lines, s.line))
    ELSE IF Find(buf, LF) > 0
    THEN LET s == SplitAt(buf, Find(buf, LF), 1)
         IN  ProcessBuffer(s.buffer, Append(lines, s.line))
    ELSE IF Find(buf, CR) > 0
    THEN LET s == SplitAt(buf, Find(buf, CR), 1)
         IN  ProcessBuffer(s.buffer, Append(lines, s.line))
    ELSE [buffer |-> buf, lines |-> lines]

(* read_shell_output: one read of the loop, added to the buffer and split *)
PumpReads ==
    /\ pump_split.reads # <<>>
    /\ LET r == ProcessBuffer(pump_split.buffer \o Head(pump_split.reads),
                              pump_split.lines)
       IN  pump_split' = [pump_split EXCEPT !.reads = Tail(pump_split.reads),
                                            !.buffer = r.buffer,
                                            !.lines = r.lines]
    /\ UNCHANGED nonbvars

(* the texts of up to n characters, and the ways to cut a text into reads *)
StreamsUpTo(n) == UNION {[1..k -> StreamChars] : k \in 1..n}

RECURSIVE CutAt(_, _, _)
CutAt(text, cuts, from) ==
    IF from > Len(text) THEN <<>>
    ELSE LET to == CHOOSE j \in from..Len(text) :
                      /\ j = Len(text) \/ j \in cuts
                      /\ \A k \in from..(j - 1) : k \notin cuts
         IN  <<SubSeq(text, from, to)>> \o CutAt(text, cuts, to + 1)

InitSplitSession ==
    /\ runtime = [c \in Ids |-> Gone]
    /\ InitManager
    /\ InitLogs
    /\ InitShell
    /\ InitClient
    /\ InitPoll
    /\ InitExec
    /\ InitView
    /\ InitSent
    /\ InitProjectCall
    /\ InitTab
    /\ \E text \in StreamsUpTo(MaxStream) :
          \E cuts \in SUBSET (1..(Len(text) - 1)) :
              pump_split = [stream |-> text, reads |-> CutAt(text, cuts, 1),
                            buffer |-> <<>>, lines |-> <<>>]

NextSplit == PumpReads

SpecSplit == InitSplitSession /\ [][NextSplit]_vars

(* the lines of a text that is split at the leftmost terminator each time, *)
(* a "\r\n" pair being one terminator                                      *)
RECURSIVE LinesOf(_, _)
LinesOf(text, lines) ==
    IF \A i \in 1..Len(text) : text[i] \notin {CR, LF} THEN lines
    ELSE LET i == CHOOSE j \in 1..Len(text) :
                     /\ text[j] \in {CR, LF}
                     /\ \A k \in 1..(j - 1) : text[k] \notin {CR, LF}
             n == IF text[i] = CR /\ i < Len(text) /\ text[i + 1] = LF
                  THEN 2 ELSE 1
         IN  LinesOf(SubSeq(text, i + n, Len(text)),
                     Append(lines, SubSeq(text, 1, i - 1)))

(* C35: no line the pump splits off holds a line terminator, and once the  *)
(* whole stream is read, however it was cut into reads, the lines are      *)
(* those of the stream split at "\r\n", "\n" and "\r", each "\r\n" pair    *)
(* ending exactly one line                                                 *)
C35_SplitLines ==
    /\ \A i \in 1..Len(pump_split.lines) :
          \A k \in 1..Len(pump_split.lines[i]) :
              pump_split.lines[i][k] \notin {CR, LF}
    /\ pump_split.reads = <<>> =>
          pump_split.lines = LinesOf(pump_split.stream, <<>>)

(***************************************************************************)
(* The failed reconnect of on_input_submitted, in the shell session.       *)
(***************************************************************************)
(* a step in which the reconnect of on_input_submitted fails *)
ReconnectFails == handler.pc = "reconnecting" /\ sops'.submit = "failed"

(* the session is disconnected: no reader, no writer, no pump running *)
Disconnected ==
    /\ shell_reader = NoConn
    /\ shell_writer = NoConn
    /\ LivePumps(pumps) = {}

(* C36: when the reconnect of on_input_submitted fails, the banner is      *)
(* added to the shell buffer, the command is written to no connection and  *)
(* not added to command_history, and the session is left disconnected, or  *)
(* unavailable when the error says that there is no shell                  *)
C36_FailedReconnect ==
    [][ReconnectFails =>
          /\ shell_lines' = Append(shell_lines, "[red]Failed to reconnect[/red]")
          /\ command_history' = command_history
          /\ \A c \in 1..MaxConns : conns'[c].written = conns[c].written
          /\ Disconnected' \/ ~shell_available']_vars

(* the parts of C36 that hold: the banner is added and the command is     *)
(* written to no connection and not added to command_history               *)
FailedReconnectWritesNothing ==
    [][ReconnectFails =>
          /\ shell_lines' = Append(shell_lines, "[red]Failed to reconnect[/red]")
          /\ command_history' = command_history
          /\ \A c \in 1..MaxConns : conns'[c].written = conns[c].written]_vars

(***************************************************************************)
(* The stored snapshot and the rendered cards after an interrupted pass.   *)
(***************************************************************************)
(* the containers the project tree holds in the data of its nodes *)
TreeIds == UNION {DataIds(project_tree[k].data) : k \in 1..Len(project_tree)}

C38_NoOpenUnreferenced ==
    \A c \in 1..MaxConns : conns[c].state = "open" => shell_writer = c

(***************************************************************************)
(* history_index and the shell input, in the session with the history keys *)
(***************************************************************************)
(* C39: when no handler is waiting, history_index is -1 or an index into   *)
(* command_history, and when it is not -1 the shell input shows            *)
(* command_history[history_index]                                          *)
C39_HistoryIndexValid ==
    handler.pc = "idle" =>
        \/ history_index = -1
        \/ /\ history_index \in 0..(Len(command_history) - 1)
           /\ input_value = command_history[history_index + 1]

(* the first half of C39: history_index is -1 or an index into             *)
(* command_history                                                         *)
HistoryIndexInRange ==
    history_index \in -1..(Len(command_history) - 1)

====
